---- MODULE Spec2Model ----
(***************************************************************************)
(* A model of zedis' server state (src/src/states/server.rs and the typed  *)
(* value loaders under src/src/states/server/): the keyspace scan engine,  *)
(* the key tree, key selection and the list/hash/set/sorted-set loaders.   *)
(*                                                                         *)
(* Conventions.                                                            *)
(*  - A Rust String is a sequence of one-character strings, so that        *)
(*    split(":"), strip_prefix and contains are computed, not assumed.     *)
(*  - Option<T> is None or Some(v).                                        *)
(*  - `tasks` holds the futures started by ZedisServerState::spawn that    *)
(*    have not yet run their callback.  A task record holds what the two   *)
(*    closures of that spawn call captured.  Tasks complete in any order.  *)
(*  - The remote store is the environment: the reply to a command is any   *)
(*    reply the protocol allows, chosen when the task completes.           *)
(*  - `last` and `scan_resp` are history variables: they record what the   *)
(*    last step did and are read only by the properties, never by the      *)
(*    actions of the server state.  A callback records in last.task the    *)
(*    name of its task and in last.log the error log it found.  The        *)
(*    token key_tree_id (server.rs:264) is a fresh UUID at each            *)
(*    assignment, so only its changes are modelled: a step that may assign *)
(*    it records in last.new_tree_id whether it did.  The                  *)
(*    specification of a pure function holds the function's inputs in      *)
(*    `last` and then its result.                                          *)
(***************************************************************************)
EXTENDS Integers, Sequences, FiniteSets, Bags, TLC

VARIABLES
    server,          \* ZedisServerState.server          (server.rs:250)
    keyword,         \* ZedisServerState.keyword         (server.rs:259)
    cursors,         \* ZedisServerState.cursors         (server.rs:260)
    scaning,         \* ZedisServerState.scaning         (server.rs:261)
    scan_completed,  \* ZedisServerState.scan_completed  (server.rs:262)
    scan_times,      \* ZedisServerState.scan_times      (server.rs:263)
    loaded_prefixes, \* ZedisServerState.loaded_prefixes (server.rs:265)
    keys,            \* ZedisServerState.keys: key -> KeyType (server.rs:266)
    key,             \* ZedisServerState.key             (server.rs:254)
    value,           \* ZedisServerState.value           (server.rs:255)
    error_messages,  \* ZedisServerState.error_messages (server.rs:270)
    SSH_SESSION,     \* the static SSH_SESSION cache (ssh_tunnel.rs:138)
    last_operated_at, \* ZedisServerState.last_operated_at (server.rs:268)
    now,             \* the clock read by unix_ts() (server.rs:82-84)
    tasks,           \* the bag of futures in flight
    kv_delegate,     \* a ZedisKvDelegate (kv_delegate.rs:68-76)
    last,            \* history: what the last step did
    scan_resp        \* history: the last scan reply applied for the selection

vars == <<server, keyword, cursors, scaning, scan_completed, scan_times,
          loaded_prefixes, keys, key, value, error_messages, SSH_SESSION,
          last_operated_at, now, tasks, kv_delegate, last, scan_resp>>

scanVars == <<server, keyword, cursors, scaning, scan_completed, scan_times,
              loaded_prefixes, keys, scan_resp>>

(***************************************************************************)
(* Bounds of the model.                                                    *)
(***************************************************************************)
\* Futures in flight at once (user operations wait when it is reached).
MaxTasks == 2
\* scan_next is offered while scan_times is below this.
MaxScanTimes == 1
\* DEFAULT_SCAN_RESULT_MAX (server.rs:39) is 1_000; the model scales it down
\* to the size of its key universe so that the threshold is reached.
DEFAULT_SCAN_RESULT_MAX == 1
\* fill_key_types queries keys.iter().take(1000) (server.rs:513); scaled down.
TypeQueryMax == 2
\* The longest list a store holds.
MaxListLen == 3
\* select_key and load_more_list_value pass 100 as the last argument of
\* LRANGE (server.rs:734, 837); scaled down.
ListPage == 1

\* scan_prefix runs at most 20 rounds of SCAN (server.rs:625); scaled down.
PrefixScanMax == 2

\* The servers select is called with; "" deselects (server.rs:658-660).
Servers == {"s1", ""}
Keywords == {<<>>, <<"a">>}
\* Every key a store may hold.
StoreKeys == {<<"a">>, <<"a", ":", "b">>}
\* Directory prefixes the key tree view asks scan_prefix to expand.
Prefixes == {<<"a", ":">>}
\* Cursor vectors a SCAN reply may carry (one cursor per master).
CursorVecs == {<<0, 0>>, <<0, 1>>}
\* The largest cardinality a sorted set reports before adds are refused.
MaxZsetSize == 2
\* first_load_zset_value asks for the ranks 0..99 (zset.rs:170); the model
\* asks for the ranks 0..ZsetPage-1.
ZsetPage == 2
\* load_more_hash_value continues by itself while fewer than 50 entries are
\* buffered (hash.rs:380); scaled down.
HashAutoLoadMin == 2
\* The view asks for more entries while fewer than this are buffered.
MaxHashBuf == 3
\* Fields of hashes, the batches an HSCAN returns, and filter keywords.
HFields == {"f1", "f2"}
HashBatches == {<<>>, <<(<<"f1", "v">>)>>, <<(<<"f1", "v">>), (<<"f2", "v">>)>>}
HashKeywords == {<<>>, <<"f">>}
\* The largest cardinality a set reports before adds are refused.
MaxSetSize == 2
\* Members of sets.
SMembers == {"m1", "m2"}
\* Members and scores of sorted sets.
ZMembers == {"m1", "m2", "m3"}
ZScores == {1, 2}
\* Contents of a string key, and texts the editor saves.
Texts == {<<>>, <<"x">>}
\* Replies of TYPE during type resolution ("" stands for a failed query,
\* server.rs:515-519 unwrap_or_default).
FillTypeReplies == {"string", ""}

(***************************************************************************)
(* Option and strings.                                                     *)
(***************************************************************************)
None == [some |-> FALSE]
Some(v) == [some |-> TRUE, v |-> v]

Range(f) == {f[i] : i \in DOMAIN f}

RECURSIVE SumSeq(_)
\* cursors.iter().sum::<u64>()
SumSeq(s) == IF s = <<>> THEN 0 ELSE Head(s) + SumSeq(Tail(s))

\* str::contains
Contains(s, p) ==
    \E i \in 0..(Len(s) - Len(p)) : SubSeq(s, i + 1, i + Len(p)) = p

\* str::starts_with
StartsWith(s, p) == Len(p) <= Len(s) /\ SubSeq(s, 1, Len(p)) = p

\* str::strip_prefix, for a string that starts with p
StripPrefix(s, p) == SubSeq(s, Len(p) + 1, Len(s))

\* byte value of a character
CharOrd(c) == CASE c = ":" -> 58 [] c = "a" -> 97 [] c = "b" -> 98 [] OTHER -> 0

RECURSIVE StrLess(_, _)
\* the order of String (byte-wise lexicographic)
StrLess(s, t) ==
    IF t = <<>> THEN FALSE
    ELSE IF s = <<>> THEN TRUE
    ELSE IF Head(s) # Head(t) THEN CharOrd(Head(s)) < CharOrd(Head(t))
    ELSE StrLess(Tail(s), Tail(t))

RECURSIVE SortStrings(_)
\* a Vec<String> holding the set S after sort_unstable()
SortStrings(S) ==
    IF S = {} THEN <<>>
    ELSE LET m == CHOOSE x \in S : \A y \in S \ {x} : StrLess(x, y)
         IN  <<m>> \o SortStrings(S \ {m})

\* the first n elements of s (Iterator::take)
Take(s, n) == SubSeq(s, 1, IF Len(s) < n THEN Len(s) ELSE n)

(***************************************************************************)
(* KeyType (server.rs:42-52) and its conversion from a TYPE reply.         *)
(***************************************************************************)
KeyTypeFrom(t) ==
    CASE t = "list" -> "List"
      [] t = "set" -> "Set"
      [] t = "zset" -> "Zset"
      [] t = "hash" -> "Hash"
      [] t = "stream" -> "Stream"
      [] t = "vectorset" -> "Vectorset"
      [] t = "string" -> "String"
      [] OTHER -> "Unknown"

(***************************************************************************)
(* Tasks.  One record shape for every task; a field a task's closures do   *)
(* not capture keeps its default.                                          *)
(***************************************************************************)
NoTask ==
    [name |-> "", server |-> "", keyword |-> <<>>, cursors |-> None,
     max |-> 0, prefix |-> <<>>, keys |-> <<>>, key |-> <<>>,
     text |-> <<>>, offset |-> 0, filter |-> None, sort_order |-> "",
     cursor |-> 0]

\* the number of futures in flight
InFlight == BagCardinality(tasks)
\* the bag of the tasks a handler spawned (at most one)
Spawned(new) == IF new = <<>> THEN EmptyBag ELSE SetToBag({new[1]})

NoLast == [op |-> "init", stale |-> FALSE, ok |-> TRUE, changed |-> {},
           issued |-> <<>>, max |-> 0, len |-> 0, arg |-> <<>>]

\* the names of the scan-state parts a step changes
ScanChanged ==
    (IF keys' # keys THEN {"keys"} ELSE {})
    \cup (IF cursors' # cursors THEN {"cursors"} ELSE {})
    \cup (IF scan_completed' # scan_completed THEN {"scan_completed"} ELSE {})
    \cup (IF loaded_prefixes' # loaded_prefixes THEN {"loaded_prefixes"} ELSE {})
    \cup (IF scaning' # scaning THEN {"scaning"} ELSE {})

(***************************************************************************)
(* The error log (server.rs:242-247, 307-317).  An entry is modelled by    *)
(* its category and its timestamp; the message text is left out.          *)
(***************************************************************************)
\* add_error_message drops the oldest entry of a log holding 10 entries
\* (server.rs:309); scaled down.
ErrorLogMax == 2

\* an insertion that evicts only from a log holding more than the capacity
add_error_message_late(log, category) ==
    Append(IF Len(log) > ErrorLogMax THEN Tail(log) ELSE log,
           [category |-> category, created_at |-> now])

\* ZedisServerState::add_error_message (server.rs:307-317)
add_error_message(log, category) ==
    Append(IF Len(log) >= ErrorLogMax THEN Tail(log) ELSE log,
           [category |-> category, created_at |-> now])

\* ZedisServerState::get_error_message (server.rs:318-325)
get_error_message ==
    IF error_messages # <<>>
       /\ error_messages[Len(error_messages)].created_at >= last_operated_at
    THEN Some(error_messages[Len(error_messages)])
    ELSE None

\* a completion that logs nothing
SpawnLogNothing(log, name, ok) == log

\* what the closure spawn hands to handle.update does before it runs the
\* callback (server.rs:341-346)
SpawnLog(log, name, ok) ==
    IF ok THEN log ELSE add_error_message(log, name)

\* The specifications that do not study the error log let the store fail a
\* task only while the log is empty, so a run holds at most one failure.
Outcomes == IF error_messages = <<>> THEN BOOLEAN ELSE {TRUE}
Heard(R) == {r \in R : r.ok \/ error_messages = <<>>}

(***************************************************************************)
(* The SSH session cache (ssh_tunnel.rs:138-139), keyed by user@address.   *)
(***************************************************************************)
SshIds == {"u@h1", "u@h2", "v@h1"}
NoSessions == [id \in SshIds |-> None]

(***************************************************************************)
(* The key map.  keys[k] is "Absent" when k is not in the AHashMap, else   *)
(* the KeyType stored for k.                                               *)
(***************************************************************************)
NoKeys == [k \in StoreKeys |-> "Absent"]

KeySet(ks) == {k \in StoreKeys : ks[k] # "Absent"}

\* ZedisServerState::extend_keys: entry(key).or_insert(Unknown)
ExtendKeys(ks, new) ==
    [k \in StoreKeys |->
        IF k \in new /\ ks[k] = "Absent" THEN "Unknown" ELSE ks[k]]

\* a test that holds whenever keys are received
ExtendKeysReceives(ks, new) == new # {}

\* insert_count != 0 in extend_keys (server.rs:296-305): the condition
\* under which it assigns a new key_tree_id
ExtendKeysInserts(ks, new) == \E k \in new : ks[k] = "Absent"

\* the state after construction, but for the history variable `last`
\* the fetchers a delegate is given at most
MaxFetchers == 3

\* ZedisKvDelegate::new (kv_delegate.rs:79-112).  A fetcher is a numbered
\* snapshot and each comes with its own Rc<Cell<bool>>, numbered like it:
\* fetcher is the number of self.fetcher and of self.processing, cell[n] the
\* content of cell n, done[n] what is_done of fetcher n answers, dialog the
\* cell the open remove dialog captured.  calls[n] counts the calls of
\* load_more of fetcher n and removed tells that a remove was confirmed
\* since the last set_fetcher; both are history.
NewDelegate ==
    [fetcher |-> 1,
     cell |-> [n \in 1..MaxFetchers |-> FALSE],
     done |-> [n \in 1..MaxFetchers |-> FALSE],
     dialog |-> None,
     calls |-> [n \in 1..MaxFetchers |-> 0],
     removed |-> FALSE]

InitState ==
    /\ server = ""
    /\ keyword = <<>>
    /\ cursors = None
    /\ scaning = FALSE
    /\ scan_completed = FALSE
    /\ scan_times = 0
    /\ loaded_prefixes = {}
    /\ keys = NoKeys
    /\ key = None
    /\ value = None
    /\ error_messages = <<>>
    /\ SSH_SESSION = NoSessions
    /\ last_operated_at = 0
    /\ now = 0
    /\ tasks = EmptyBag
    /\ kv_delegate = NewDelegate
    /\ scan_resp = "none"

Init == InitState /\ last = NoLast

(***************************************************************************)
(* The scan engine (server.rs:486-690).  The views offer scan, scan_next    *)
(* and scan_prefix only while a server is selected (server # "").          *)
(***************************************************************************)
\* a scan_keys task was spawned for another selection than the current one
Stale(t) == t.server # server \/ t.keyword # keyword
\* a task was spawned for another server than the current one
StaleServer(t) == t.server # server

\* a request that carries the cursors and the scan_times stored at the moment
\* it is built, whatever the caller passes
ScanKeysSpawnStored(srv, kw, curServer, curKeyword, curCursors, curTimes) ==
    IF curServer # srv \/ curKeyword # kw THEN <<>>
    ELSE <<[NoTask EXCEPT !.name = "scan_keys", !.server = srv,
                          !.keyword = kw, !.cursors = cursors,
                          !.max = (scan_times + 1) * DEFAULT_SCAN_RESULT_MAX]>>

\* The task scan_keys(server, keyword) spawns when called in a state whose
\* selection is (curServer, curKeyword): none when they differ
\* (server.rs:541-543), else one request carrying the stored cursors and
\* max = (scan_times + 1) * DEFAULT_SCAN_RESULT_MAX (server.rs:544-545).
ScanKeysSpawn(srv, kw, curServer, curKeyword, curCursors, curTimes) ==
    IF curServer # srv \/ curKeyword # kw THEN <<>>
    ELSE <<[NoTask EXCEPT !.name = "scan_keys", !.server = srv,
                          !.keyword = kw, !.cursors = curCursors,
                          !.max = (curTimes + 1) * DEFAULT_SCAN_RESULT_MAX]>>

\* The keys fill_key_types(prefix) selects (server.rs:487-500): type still
\* Unknown, directly under the prefix.
FillCandidates(ks, prefix) ==
    {k \in KeySet(ks) :
        /\ ks[k] = "Unknown"
        /\ StartsWith(k, prefix)
        /\ ~Contains(StripPrefix(k, prefix), <<":">>)}

\* The task fill_key_types(prefix) spawns: none when no key qualifies
\* (server.rs:501-503), else one carrying the sorted keys.
FillKeyTypesSpawn(ks, prefix, curServer) ==
    IF FillCandidates(ks, prefix) = {} THEN <<>>
    ELSE <<[NoTask EXCEPT !.name = "fill_key_types", !.server = curServer,
                          !.keys = SortStrings(FillCandidates(ks, prefix))]>>

\* the keys of the store matching the glob *keyword* (server.rs:554)
MatchKeyword(kw) == {k \in StoreKeys : Contains(k, kw)}
\* the keys of the store matching the glob prefix* (server.rs:615)
MatchPrefix(p) == {k \in StoreKeys : StartsWith(k, p)}

Names(ts) == [i \in DOMAIN ts |-> ts[i].name]

\* ZedisServerState::select (server.rs:652-690)
Select(s) ==
    /\ UNCHANGED <<error_messages, SSH_SESSION, now, kv_delegate>>
    /\ last_operated_at' = IF s # "" THEN now ELSE last_operated_at
    /\ UNCHANGED value
    /\ server # s
    /\ s # "" => InFlight < MaxTasks
    /\ server' = s
    /\ key' = None
    /\ keyword' = <<>>
    /\ cursors' = None
    /\ keys' = NoKeys
    /\ scaning' = (s # "")
    /\ scan_completed' = FALSE
    /\ scan_times' = 0
    /\ loaded_prefixes' = {}
    /\ scan_resp' = "none"
    /\ LET new == IF s = "" THEN <<>>
                  ELSE <<[NoTask EXCEPT !.name = "select_server", !.server = s]>>
       IN  /\ tasks' = tasks (+) Spawned(new)
           /\ last' = [op |-> "select",
                       new_tree_id |-> TRUE,
                       stale |-> FALSE, ok |-> TRUE,
                       changed |-> ScanChanged, issued |-> Names(new), max |-> 0, len |-> 0,
                arg |-> <<>>]

\* ZedisServerState::select called with the server that is selected: the
\* test of server.rs:653 fails and nothing is done
SelectCurrent ==
    /\ UNCHANGED <<scanVars, key, value, error_messages, SSH_SESSION,
                   last_operated_at, now, tasks, kv_delegate>>
    /\ last' = [op |-> "select", stale |-> FALSE, ok |-> TRUE,
                changed |-> {}, issued |-> <<>>, max |-> 0, len |-> 0,
                arg |-> <<>>]

\* the callback of select's task (server.rs:676-687)
SelectServerDone(t, ok) ==
    /\ UNCHANGED <<scanVars, key, value>>
    /\ t.name = "select_server"
    /\ error_messages' = SpawnLog(error_messages, t.name, ok)
    /\ UNCHANGED <<SSH_SESSION, last_operated_at, now, kv_delegate>>
    /\ LET new == IF server # t.server THEN <<>>
                  ELSE ScanKeysSpawn(server, <<>>, server, keyword, cursors,
                                     scan_times)
       IN  /\ tasks' = (tasks (-) SetToBag({t})) (+) Spawned(new)
           /\ last' = [op |-> "select_server_cb", task |-> t.name,
                       log |-> error_messages, stale |-> server # t.server,
                       ok |-> ok, changed |-> {}, issued |-> Names(new), max |-> 0, len |-> 0,
                arg |-> <<>>]

\* ZedisServerState::scan (server.rs:589-595), with reset_scan
\* (server.rs:277-286)
Scan(kw) ==
    /\ UNCHANGED <<error_messages, SSH_SESSION, last_operated_at, now,
                   kv_delegate>>
    /\ server # ""
    /\ UNCHANGED <<server, key, value>>
    /\ InFlight < MaxTasks
    /\ keyword' = kw
    /\ cursors' = None
    /\ keys' = NoKeys
    /\ scaning' = TRUE
    /\ scan_completed' = FALSE
    /\ scan_times' = 0
    /\ loaded_prefixes' = {}
    /\ scan_resp' = "none"
    /\ LET new == ScanKeysSpawn(server, kw, server, kw, None, 0)
       IN  /\ tasks' = tasks (+) Spawned(new)
           /\ last' = [op |-> "scan",
                       new_tree_id |-> TRUE,
                       stale |-> FALSE, ok |-> TRUE,
                       changed |-> ScanChanged, issued |-> Names(new), max |-> 0, len |-> 0,
                arg |-> <<>>]

\* ZedisServerState::scan_next (server.rs:596-603)
ScanNext ==
    /\ UNCHANGED <<error_messages, SSH_SESSION, last_operated_at, now,
                   kv_delegate>>
    /\ server # ""
    /\ UNCHANGED <<server, keyword, cursors, scaning, scan_completed,
                   loaded_prefixes, keys, key, value, scan_resp>>
    /\ ~scan_completed
    /\ scan_times < MaxScanTimes
    /\ InFlight < MaxTasks
    /\ scan_times' = scan_times + 1
    /\ LET new == ScanKeysSpawn(server, keyword, server, keyword, cursors,
                                scan_times + 1)
       IN  /\ tasks' = tasks (+) Spawned(new)
           /\ last' = [op |-> "scan_next", stale |-> FALSE, ok |-> TRUE,
                       changed |-> {}, issued |-> Names(new), max |-> 0, len |-> 0,
                arg |-> <<>>]

\* what a scan request may be answered with: an error, or cursors and any
\* keys matching the pattern
ScanReplies(kw) ==
    {[ok |-> FALSE, cursors |-> <<>>, keys |-> {}]}
    \cup {[ok |-> TRUE, cursors |-> c, keys |-> ks] :
            c \in CursorVecs, ks \in SUBSET MatchKeyword(kw)}

\* a callback that keeps the stored cursors when the request failed
ScanCursorsKeptOnError(r) ==
    IF ~r.ok THEN cursors
    ELSE IF SumSeq(r.cursors) # 0 THEN Some(r.cursors) ELSE None

\* the cursors stored by the callback of scan_keys (server.rs:563-577)
ScanCursorsAfter(r) ==
    IF r.ok /\ SumSeq(r.cursors) # 0 THEN Some(r.cursors) ELSE None

\* a continuation test that ignores the key threshold
ScanRunAgainNoLimit(cursors1, keys1, max) == cursors1 # None

\* whether the callback of scan_keys calls scan_keys again (server.rs:578)
ScanRunAgain(cursors1, keys1, max) ==
    cursors1 # None /\ Cardinality(KeySet(keys1)) < max

\* the callback of scan_keys (server.rs:562-586)
ScanKeysDone(t, r) ==
    /\ UNCHANGED <<server, keyword, scan_times, loaded_prefixes, key, value>>
    /\ t.name = "scan_keys"
    /\ error_messages' = SpawnLog(error_messages, t.name, r.ok)
    /\ UNCHANGED <<SSH_SESSION, last_operated_at, now, kv_delegate>>
    /\ LET cursors1 == ScanCursorsAfter(r)
           keys1 == IF r.ok THEN ExtendKeys(keys, r.keys) ELSE keys
           again == ScanRunAgain(cursors1, keys1, t.max)
           new == IF again
                  THEN ScanKeysSpawn(t.server, t.keyword, server, keyword,
                                     cursors1, scan_times)
                  ELSE FillKeyTypesSpawn(keys1, <<>>, server)
       IN  /\ cursors' = cursors1
           /\ keys' = keys1
           /\ scan_completed' =
                (scan_completed \/ (r.ok /\ SumSeq(r.cursors) = 0))
           /\ scaning' = IF again THEN scaning ELSE FALSE
           /\ tasks' = (tasks (-) SetToBag({t})) (+) Spawned(new)
           /\ scan_resp' = IF Stale(t) THEN scan_resp
                           ELSE IF ~r.ok THEN "err"
                           ELSE IF SumSeq(r.cursors) = 0 THEN "zero"
                           ELSE "nonzero"
           /\ last' = [op |-> "scan_keys_cb",
                       new_tree_id |-> (r.ok /\ ExtendKeysInserts(keys, r.keys)),
                       task |-> t.name,
                       log |-> error_messages, stale |-> Stale(t), ok |-> r.ok,
                       changed |-> ScanChanged, issued |-> Names(new), max |-> t.max, len |-> 0,
                arg |-> <<>>]

\* ZedisServerState::scan_prefix (server.rs:604-651), the call
ScanPrefix(p) ==
    /\ UNCHANGED <<error_messages, SSH_SESSION, now, kv_delegate>>
    /\ last_operated_at' = IF scan_completed THEN last_operated_at ELSE now
    /\ server # ""
    /\ UNCHANGED <<scanVars, key, value>>
    /\ p \notin loaded_prefixes
    /\ InFlight < MaxTasks
    /\ LET new == IF scan_completed
                  THEN FillKeyTypesSpawn(keys, p, server)
                  ELSE <<[NoTask EXCEPT !.name = "scan_prefix",
                                        !.server = server, !.prefix = p]>>
       IN  /\ new # <<>>
           /\ tasks' = tasks (+) Spawned(new)
           /\ last' = [op |-> "scan_prefix", stale |-> FALSE, ok |-> TRUE,
                       changed |-> {}, issued |-> Names(new), max |-> 0, len |-> 0,
                arg |-> <<>>]

\* what the task of scan_prefix may return: an error, or the keys its scans
\* collected
PrefixReplies(p) ==
    {[ok |-> FALSE, keys |-> {}]}
    \cup {[ok |-> TRUE, keys |-> ks] : ks \in SUBSET MatchPrefix(p)}

\* the callback of scan_prefix (server.rs:641-649)
ScanPrefixDone(t, r) ==
    /\ UNCHANGED <<server, keyword, cursors, scaning, scan_completed,
                   scan_times, key, value, scan_resp>>
    /\ t.name = "scan_prefix"
    /\ error_messages' = SpawnLog(error_messages, t.name, r.ok)
    /\ UNCHANGED <<SSH_SESSION, last_operated_at, now, kv_delegate>>
    /\ LET keys1 == IF r.ok THEN ExtendKeys(keys, r.keys) ELSE keys
           new == FillKeyTypesSpawn(keys1, t.prefix, server)
       IN  /\ keys' = keys1
           /\ loaded_prefixes' = IF r.ok THEN loaded_prefixes \cup {t.prefix}
                                 ELSE loaded_prefixes
           /\ tasks' = (tasks (-) SetToBag({t})) (+) Spawned(new)
           /\ last' = [op |-> "scan_prefix_cb",
                       new_tree_id |-> (r.ok /\ ExtendKeysInserts(keys, r.keys)),
                       task |-> t.name,
                       log |-> error_messages, stale |-> StaleServer(t),
                       ok |-> r.ok, changed |-> ScanChanged,
                       issued |-> Names(new), max |-> 0, len |-> 0,
                arg |-> <<>>]

\* what the task of fill_key_types may return (server.rs:510-523): an error
\* when no connection is had, else one TYPE reply for each of the first
\* TypeQueryMax keys
FillReplies(t) ==
    {[ok |-> FALSE, types |-> <<>>]}
    \cup {[ok |-> TRUE, types |-> ty] :
            ty \in [1..Len(Take(t.keys, TypeQueryMax)) -> FillTypeReplies]}

\* the key map after the callback of fill_key_types (server.rs:526-533)
FillTypesApply(ks, qkeys, types) ==
    [k \in StoreKeys |->
        IF ks[k] # "Absent"
           /\ \E j \in DOMAIN types : j \in DOMAIN qkeys /\ qkeys[j] = k
        THEN KeyTypeFrom(types[CHOOSE j \in DOMAIN types :
                                   j \in DOMAIN qkeys /\ qkeys[j] = k])
        ELSE ks[k]]

\* the callback of fill_key_types (server.rs:524-537)
FillKeyTypesDone(t, r) ==
    /\ UNCHANGED <<server, keyword, cursors, scaning, scan_completed,
                   scan_times, loaded_prefixes, key, value, scan_resp>>
    /\ t.name = "fill_key_types"
    /\ error_messages' = SpawnLog(error_messages, t.name, r.ok)
    /\ UNCHANGED <<SSH_SESSION, last_operated_at, now, kv_delegate>>
    /\ keys' = IF r.ok THEN FillTypesApply(keys, t.keys, r.types) ELSE keys
    /\ tasks' = tasks (-) SetToBag({t})
    /\ last' = [op |-> "fill_key_types_cb",
                       new_tree_id |-> r.ok,
                       task |-> t.name,
                log |-> error_messages, stale |-> StaleServer(t),
                ok |-> r.ok, changed |-> ScanChanged, issued |-> <<>>, max |-> 0, len |-> 0,
                arg |-> <<>>]

\* the replies of a store that answers every TYPE query
FillRepliesOk(t) == {r \in FillReplies(t) : r.ok}

NextScan ==
    \/ \E s \in Servers : Select(s)
    \/ \E t \in BagToSet(tasks) : SelectServerDone(t, TRUE)
    \/ \E kw \in Keywords : Scan(kw)
    \/ ScanNext
    \/ \E t \in BagToSet(tasks) : \E r \in Heard(ScanReplies(t.keyword)) :
            ScanKeysDone(t, r)
    \/ \E t \in BagToSet(tasks) : \E r \in FillRepliesOk(t) :
            FillKeyTypesDone(t, r)

\* the user selects servers and scans by keyword
SpecScan == Init /\ [][NextScan]_vars

\* the replies of a store that answers every scan, with every matching key
\* or with none
ScanRepliesOk(kw) ==
    {r \in ScanReplies(kw) : r.ok /\ r.keys \in {{}, MatchKeyword(kw)}}

\* the replies of a store that answers every scan of a prefix with every
\* matching key
PrefixRepliesOk(p) == {r \in PrefixReplies(p) : r.ok /\ r.keys = MatchPrefix(p)}

NextReset ==
    \/ \E s \in Servers : Select(s)
    \/ SelectCurrent
    \/ \E t \in BagToSet(tasks) : SelectServerDone(t, TRUE)
    \/ \E kw \in Keywords : Scan(kw)
    \/ ScanNext
    \/ \E t \in BagToSet(tasks) : \E r \in ScanRepliesOk(t.keyword) :
            ScanKeysDone(t, r)
    \/ \E p \in Prefixes : ScanPrefix(p)
    \/ \E t \in BagToSet(tasks) : \E r \in PrefixRepliesOk(t.prefix) :
            ScanPrefixDone(t, r)
    \/ \E t \in BagToSet(tasks) : \E r \in FillRepliesOk(t) :
            FillKeyTypesDone(t, r)

\* the user selects servers, scans by keyword and expands prefixes
SpecReset == Init /\ [][NextReset]_vars

\* The rounds of SCAN a store takes for the pattern of prefix p: the keys
\* each round returns; the cursors are 0 after the last round and not before.
StoreRounds(p) ==
    {rs \in UNION {[1..n -> SUBSET MatchPrefix(p)] : n \in 1..(PrefixScanMax + 1)} :
        /\ UNION {rs[i] : i \in DOMAIN rs} = MatchPrefix(p)
        /\ \A i, j \in DOMAIN rs : i # j => rs[i] \cap rs[j] = {}}

\* the loop of the task of scan_prefix (server.rs:624-637) from round i on
RECURSIVE ScanPrefixLoop(_, _, _)
ScanPrefixLoop(rounds, i, result_keys) ==
    IF i > PrefixScanMax THEN result_keys
    ELSE LET got == result_keys \cup rounds[i]
         IN  IF i = Len(rounds) THEN got
             ELSE ScanPrefixLoop(rounds, i + 1, got)

\* the task of scan_prefix (server.rs:619-640) against a store that answers
\* every SCAN
scan_prefix_task(rounds) ==
    [ok |-> TRUE, keys |-> ScanPrefixLoop(rounds, 1, {})]

\* what the task of scan_prefix returns: an error, or what its loop collects
DrainReplies(p) ==
    {[ok |-> FALSE, keys |-> {}]}
    \cup {scan_prefix_task(rs) : rs \in StoreRounds(p)}

NextDrain ==
    \/ \E s \in Servers : Select(s)
    \/ \E t \in BagToSet(tasks) : SelectServerDone(t, TRUE)
    \/ \E t \in BagToSet(tasks) : \E r \in ScanRepliesOk(t.keyword) :
            ScanKeysDone(t, r)
    \/ \E p \in Prefixes : ScanPrefix(p)
    \/ \E t \in BagToSet(tasks) : \E r \in DrainReplies(t.prefix) :
            ScanPrefixDone(t, r)
    \/ \E t \in BagToSet(tasks) : \E r \in FillRepliesOk(t) :
            FillKeyTypesDone(t, r)

\* the user expands prefixes of stores that take any number of SCAN rounds
SpecDrain == Init /\ [][NextDrain]_vars

NextPrefix ==
    \/ \E s \in Servers : Select(s)
    \/ \E t \in BagToSet(tasks), ok \in Outcomes : SelectServerDone(t, ok)
    \/ \E t \in BagToSet(tasks) : \E r \in Heard(ScanReplies(t.keyword)) :
            ScanKeysDone(t, r)
    \/ \E p \in Prefixes : ScanPrefix(p)
    \/ \E t \in BagToSet(tasks) : \E r \in Heard(PrefixReplies(t.prefix)) :
            ScanPrefixDone(t, r)
    \/ \E t \in BagToSet(tasks) : \E r \in Heard(FillReplies(t)) :
            FillKeyTypesDone(t, r)

\* the user selects servers and expands directories of the key tree
SpecPrefix == Init /\ [][NextPrefix]_vars

(***************************************************************************)
(* The key tree (server.rs:86-131, 358-401).  The trie is the set of its   *)
(* nodes below the root; a node is named by its path, the short names      *)
(* from the root down.                                                     *)
(***************************************************************************)
RECURSIVE SplitFrom(_, _)
\* str::split(":") of the string s, cur being the segment read so far
SplitFrom(s, cur) ==
    IF s = <<>> THEN <<cur>>
    ELSE IF Head(s) = ":" THEN <<cur>> \o SplitFrom(Tail(s), <<>>)
    ELSE SplitFrom(Tail(s), Append(cur, Head(s)))

Split(s) == SplitFrom(s, <<>>)

\* the full_path of the node at path p of the trie; the root's is empty
NodeFullPath(trie, p) ==
    IF p = <<>> THEN <<>>
    ELSE (CHOOSE n \in trie : n.path = p).full_path

RECURSIVE KeyNodeInsertFrom(_, _, _)
\* KeyNode::insert (server.rs:112-130) at the node i segments down
KeyNodeInsertFrom(trie, parts, i) ==
    LET p == SubSeq(parts, 1, i)
    IN  IF i = Len(parts)
        THEN {IF n.path = p THEN [n EXCEPT !.is_key = TRUE] ELSE n :
                n \in trie}
        ELSE LET part_name == parts[i + 1]
                 c == SubSeq(parts, 1, i + 1)
                 child_full_path ==
                     IF NodeFullPath(trie, p) = <<>> THEN part_name
                     ELSE NodeFullPath(trie, p) \o <<":">> \o part_name
                 trie1 == IF \E n \in trie : n.path = c THEN trie
                          ELSE trie \cup {[path |-> c,
                                           full_path |-> child_full_path,
                                           is_key |-> FALSE]}
             IN  KeyNodeInsertFrom(trie1, parts, i + 1)

\* root_trie_node.insert(key.split(":"))
KeyNodeInsert(trie, k) == KeyNodeInsertFrom(trie, Split(k), 0)

RECURSIVE BuildTrie(_, _)
\* the trie after inserting the keys K (server.rs:360-368)
BuildTrie(trie, K) ==
    IF K = {} THEN trie
    ELSE LET k == CHOOSE x \in K : TRUE
         IN  BuildTrie(KeyNodeInsert(trie, k), K \ {k})

\* the children of the node at path p
TrieChildren(trie, p) ==
    {n \in trie : Len(n.path) = Len(p) + 1 /\ SubSeq(n.path, 1, Len(p)) = p}

\* an order that compares the ids alone
TreeItemLessByIdOnly(a, b) == StrLess(a.id, b.id)

\* the order of sort_unstable_by (server.rs:388-395): items with children
\* first, then by id
TreeItemLess(a, b) ==
    LET a_is_dir == a.children # <<>>
        b_is_dir == b.children # <<>>
    IN  IF a_is_dir # b_is_dir THEN a_is_dir ELSE StrLess(a.id, b.id)

RECURSIVE SortItems(_)
SortItems(S) ==
    IF S = {} THEN <<>>
    ELSE LET m == CHOOSE x \in S : \A y \in S \ {x} : ~TreeItemLess(y, x)
         IN  <<m>> \o SortItems(S \ {m})

RECURSIVE convert_map_to_vec_tree(_, _)
\* convert_map_to_vec_tree (server.rs:370-398): a TreeItem takes the
\* full_path as id and the short name as label
convert_map_to_vec_tree(trie, p) ==
    SortItems({[id |-> n.full_path, label |-> n.path[Len(n.path)],
                children |-> convert_map_to_vec_tree(trie, n.path)] :
                  n \in TrieChildren(trie, p)})

\* ZedisServerState::key_tree (server.rs:358-401) for the key set K
key_tree(K) == convert_map_to_vec_tree(BuildTrie({}, K), <<>>)

\* The keys the key tree is studied on: leaves, directories, and a key that
\* is itself the directory of another.
TreeKeys ==
    {<<"a">>, <<"b">>, <<"a", ":", "b">>, <<"b", ":", "a">>,
     <<"b", ":", "b">>}

\* the orders in which an AHashMap holding some of TreeKeys may yield them
KeyOrders ==
    {o \in UNION {[1..n -> TreeKeys] : n \in 0..Cardinality(TreeKeys)} :
        \A i, j \in DOMAIN o : i # j => o[i] # o[j]}

RECURSIVE BuildTrieIn(_, _)
\* the loop `for key in keys` (server.rs:366-368) over the keys in the
\* order the map yields them
BuildTrieIn(trie, order) ==
    IF order = <<>> THEN trie
    ELSE BuildTrieIn(KeyNodeInsert(trie, Head(order)), Tail(order))

\* ZedisServerState::key_tree (server.rs:358-401) when the key map yields
\* its keys in the given order
key_tree_in(order) == convert_map_to_vec_tree(BuildTrieIn({}, order), <<>>)

\* a view renders the key tree of a key map that iterates in `order`
KeyTree(order) ==
    /\ UNCHANGED <<scanVars, key, value, error_messages, SSH_SESSION, tasks>>
    /\ UNCHANGED <<last_operated_at, now, kv_delegate>>
    /\ last' = [op |-> "key_tree", arg |-> order, tree |-> key_tree_in(order)]

NextTree == \E order \in KeyOrders : KeyTree(order)

\* the key tree of every key map over TreeKeys, in every iteration order
SpecTree == Init /\ [][NextTree]_vars

(***************************************************************************)
(* The SSH tunnel subsystem (ssh_tunnel.rs:138-344).  A session is a       *)
(* number; a new session takes a number no cached session has.  What the   *)
(* SSH server, the key material and the agent do is the environment.       *)
(***************************************************************************)
\* the agent identities tried at most
MaxIdentities == 2

\* the key and password of a RedisServer configuration, "" when not set
SshConfigs == [key : {"", "k"}, password : {"", "p"}]

\* how an authentication request ends: Ok(Success), Ok(Failure) or Err
AuthOutcomes == {"Success", "Failure", "Err"}

\* what the agent does: the platform has none, connecting to it or asking
\* its identities fails, or it holds identities, each with the outcome of
\* authenticating with it
AgentOutcomes ==
    {[state |-> "Unsupported", ids |-> <<>>],
     [state |-> "AgentErr", ids |-> <<>>]}
    \cup {[state |-> "Identities", ids |-> i] :
            i \in UNION {[1..n -> AuthOutcomes] : n \in 0..MaxIdentities}}

\* connect: whether russh::client::connect succeeds; key: whether the key
\* loads and how authenticate_publickey ends; password: how
\* authenticate_password ends
SshEnvs ==
    [connect : BOOLEAN, key : AuthOutcomes \cup {"LoadErr"},
     password : AuthOutcomes, agent : AgentOutcomes]

RECURSIVE AgentAttempts(_)
\* the identities the loop over the agent identities tries
\* (ssh_tunnel.rs:296-324): up to the first success
AgentAttempts(ids) ==
    IF ids = <<>> THEN <<>>
    ELSE IF Head(ids) = "Success" THEN <<Head(ids)>>
    ELSE <<Head(ids)>> \o AgentAttempts(Tail(ids))

\* new_ssh_session (ssh_tunnel.rs:227-344): whether a session results, and
\* the methods tried in order
new_ssh_session(cfg, env) ==
    IF ~env.connect THEN [ok |-> FALSE, tried |-> <<>>]
    ELSE IF cfg.key # ""
    THEN IF env.key = "LoadErr" THEN [ok |-> FALSE, tried |-> <<>>]
         ELSE [ok |-> env.key = "Success", tried |-> <<"publickey">>]
    ELSE IF cfg.password # ""
    THEN [ok |-> env.password = "Success", tried |-> <<"password">>]
    ELSE IF env.agent.state # "Identities"
    THEN [ok |-> FALSE, tried |-> <<>>]
    ELSE LET attempts == AgentAttempts(env.agent.ids)
         IN  [ok |-> \E i \in DOMAIN attempts : attempts[i] = "Success",
              tried |-> [i \in DOMAIN attempts |-> "agent"]]

\* the inputs of new_ssh_session
InitSshAuth ==
    /\ InitState
    /\ last \in {[op |-> "ssh_input", cfg |-> c, env |-> e] :
                    c \in SshConfigs, e \in SshEnvs}

\* new_ssh_session applied to the inputs
NewSshSession ==
    /\ last.op = "ssh_input"
    /\ UNCHANGED <<scanVars, key, value, error_messages, SSH_SESSION, tasks>>
    /\ UNCHANGED <<last_operated_at, now, kv_delegate>>
    /\ LET r == new_ssh_session(last.cfg, last.env)
       IN  last' = [op |-> "new_ssh_session", cfg |-> last.cfg,
                    env |-> last.env, ok |-> r.ok, tried |-> r.tried]

NextSshAuth == NewSshSession

\* new_ssh_session for every configuration and every environment
SpecSshAuth == InitSshAuth /\ [][NextSshAuth]_vars

\* The longest OpenSSH text of a public key and the longest known_hosts file.
MaxKeyTextLen == 2
MaxKnownHostsLen == 3

\* every text of at most n characters
TextsUpTo(n) == UNION {[1..m -> {"A", "B"}] : m \in 0..n}

\* PublicKey::to_openssh (ssh_tunnel.rs:118): an error, or a text
OpensshTexts == {None} \cup {Some(x) : x \in TextsUpTo(MaxKeyTextLen) \ {<<>>}}

\* ~/.ssh/known_hosts: not there, there but not readable, or its content
KnownHostsFiles ==
    {[exists |-> FALSE, readable |-> FALSE, content |-> <<>>],
     [exists |-> TRUE, readable |-> FALSE, content |-> <<>>]}
    \cup {[exists |-> TRUE, readable |-> TRUE, content |-> c] :
            c \in TextsUpTo(MaxKnownHostsLen)}

\* a check that accepts a key only at the beginning of the file
check_server_key_at_start(openssh, home, file) ==
    IF openssh = None THEN "Ok(false)"
    ELSE IF ~home THEN "Ok(true)"
    ELSE IF file.exists
    THEN IF ~file.readable THEN "Err"
         ELSE IF StartsWith(file.content, openssh.v) THEN "Ok(true)"
         ELSE "Ok(false)"
    ELSE "Ok(true)"

\* ClientHandler::check_server_key (ssh_tunnel.rs:116-131) for the result of
\* to_openssh, whether get_home_dir finds a directory, and the file
check_server_key(openssh, home, file) ==
    IF openssh = None THEN "Ok(false)"
    ELSE IF ~home THEN "Ok(true)"
    ELSE IF file.exists
    THEN IF ~file.readable THEN "Err"
         ELSE IF Contains(file.content, openssh.v) THEN "Ok(true)"
         ELSE "Ok(false)"
    ELSE "Ok(true)"

\* the inputs of check_server_key
InitHostKey ==
    /\ InitState
    /\ last \in {[op |-> "host_key_input", openssh |-> k, home |-> h,
                   file |-> f] :
                    k \in OpensshTexts, h \in BOOLEAN, f \in KnownHostsFiles}

\* check_server_key applied to the inputs
CheckServerKey ==
    /\ last.op = "host_key_input"
    /\ UNCHANGED <<scanVars, key, value, error_messages, SSH_SESSION, tasks>>
    /\ UNCHANGED <<last_operated_at, now, kv_delegate>>
    /\ last' = [op |-> "check_server_key", openssh |-> last.openssh,
                home |-> last.home, file |-> last.file,
                ret |-> check_server_key(last.openssh, last.home, last.file)]

NextHostKey == CheckServerKey

\* check_server_key for every key and every known_hosts file
SpecHostKey == InitHostKey /\ [][NextHostKey]_vars

\* TtlCache::get: the entry of the key, when it has not expired
TtlGet(cache, id) == cache[id]
\* TtlCache::insert: the entry of the key becomes the value
TtlInsert(cache, id, v) == [cache EXCEPT ![id] = Some(v)]

\* a session number that no cached session has
NewSession(cache) ==
    CHOOSE n \in 1..(Cardinality(SshIds) + 1) :
        \A id \in SshIds : cache[id] # Some(n)

\* the configurations and environments the session cache is studied with
SshCacheConfigs == {[key |-> "k", password |-> "p"]}
SshCacheEnvs ==
    {e \in SshEnvs : /\ e.connect
                     /\ e.key \in {"Success", "Failure"}
                     /\ e.password = "Failure"
                     /\ e.agent.state = "Unsupported"}

\* a reuse test that does not probe the session
UseCachedUnprobed(cached, alive) == cached.some

\* get_or_init_ssh_session returns the cached session (ssh_tunnel.rs:186-192)
UseCached(cached, alive) == cached.some /\ alive

\* get_or_init_ssh_session (ssh_tunnel.rs:181-201) for the key id; alive is
\* what is_alive (ssh_tunnel.rs:154-162) answers for the cached session
GetOrInitSshSession(id, alive, cfg, env) ==
    /\ UNCHANGED <<scanVars, key, value, error_messages, tasks>>
    /\ UNCHANGED <<last_operated_at, now, kv_delegate>>
    /\ LET cached == TtlGet(SSH_SESSION, id)
           r == new_ssh_session(cfg, env)
           session == NewSession(SSH_SESSION)
       IN  IF UseCached(cached, alive)
           THEN /\ SSH_SESSION' = SSH_SESSION
                /\ last' = [op |-> "get_or_init_ssh_session", id |-> id,
                            cached |-> cached, alive |-> alive,
                            handshakes |-> 0, ok |-> TRUE, ret |-> cached]
           ELSE /\ SSH_SESSION' = IF r.ok
                                  THEN TtlInsert(SSH_SESSION, id, session)
                                  ELSE SSH_SESSION
                /\ last' = [op |-> "get_or_init_ssh_session", id |-> id,
                            cached |-> cached, alive |-> alive,
                            handshakes |-> 1, ok |-> r.ok,
                            ret |-> IF r.ok THEN Some(session) ELSE None]

\* clear_expired_ssh_sessions (ssh_tunnel.rs:409-411): the entries idle
\* for the time to live leave the cache
ClearExpiredSshSessions(expired) ==
    /\ UNCHANGED <<scanVars, key, value, error_messages, tasks>>
    /\ UNCHANGED <<last_operated_at, now, kv_delegate>>
    /\ expired # {}
    /\ \A id \in expired : SSH_SESSION[id] # None
    /\ SSH_SESSION' = [id \in SshIds |->
                          IF id \in expired THEN None ELSE SSH_SESSION[id]]
    /\ last' = [op |-> "clear_expired_ssh_sessions"]

NextSsh ==
    \/ \E id \in SshIds, alive \in BOOLEAN, cfg \in SshCacheConfigs,
          env \in SshCacheEnvs : GetOrInitSshSession(id, alive, cfg, env)
    \/ \E expired \in SUBSET SshIds : ClearExpiredSshSessions(expired)

\* tunnel requests served one after the other, and the expiry sweep
SpecSsh == Init /\ [][NextSsh]_vars

(***************************************************************************)
(* Tunnel requests that run concurrently.  A request runs on the tokio     *)
(* runtime (ssh_tunnel.rs:369), so it yields at each await of              *)
(* get_or_init_ssh_session: the probe is_alive (ssh_tunnel.rs:188) and the *)
(* negotiation new_ssh_session (ssh_tunnel.rs:195).  The cache is read     *)
(* before the first await (ssh_tunnel.rs:185) and written after the second *)
(* (ssh_tunnel.rs:199); nothing is held across them.  A request is a task  *)
(* of the bag: its key, the await it is at, the session it read from the   *)
(* cache, and when it has returned the session it holds and the handshakes *)
(* it made.                                                                *)
(***************************************************************************)
\* the tunnel requests started at most
MaxTunnelRequests == 3

\* a call of get_or_init_ssh_session in flight (ssh_tunnel.rs:181-201): the
\* await it is at, the cache entry it read, the handshakes it made, and the
\* session it returned
TunnelRequest(id, at, cached, handshakes, ok, session) ==
    [name |-> "open_single_ssh_tunnel_connection", id |-> id, at |-> at,
     cached |-> cached, handshakes |-> handshakes, ok |-> ok,
     session |-> session]

\* a session number that neither the cache nor a request holds
FreshSession(cache, requests) ==
    CHOOSE n \in 1..(MaxTunnelRequests + 1) :
        /\ \A id \in SshIds : cache[id] # Some(n)
        /\ \A t \in requests : t.cached # Some(n) /\ t.session # Some(n)

\* the await a request reaches first (ssh_tunnel.rs:185-195): the probe
\* when the cache holds a session for the key, else the negotiation
FirstAwait(cached) == IF cached.some THEN "is_alive" ELSE "new_ssh_session"

\* a request starts: get_or_init_ssh_session reads the cache
\* (ssh_tunnel.rs:183-186) and reaches its first await
TunnelRequestStart(id) ==
    /\ UNCHANGED <<scanVars, key, value, error_messages, SSH_SESSION>>
    /\ UNCHANGED <<last_operated_at, now, kv_delegate>>
    /\ BagCardinality(tasks) < MaxTunnelRequests
    /\ LET cached == TtlGet(SSH_SESSION, id)
       IN  /\ tasks' = tasks (+) SetToBag({TunnelRequest(id,
                          FirstAwait(cached), cached, 0, FALSE, None)})
           /\ last' = [op |-> "get_or_init_ssh_session:get", id |-> id,
                       cached |-> cached]

\* the probe of a request answers (ssh_tunnel.rs:186-192): the request
\* returns the session it read, or goes on to negotiate
TunnelRequestProbed(t, alive) ==
    /\ UNCHANGED <<scanVars, key, value, error_messages, SSH_SESSION>>
    /\ UNCHANGED <<last_operated_at, now, kv_delegate>>
    /\ t.name = "open_single_ssh_tunnel_connection" /\ t.at = "is_alive"
    /\ LET t1 == IF UseCached(t.cached, alive)
                 THEN TunnelRequest(t.id, "returned", t.cached, 0, TRUE,
                                    t.cached)
                 ELSE TunnelRequest(t.id, "new_ssh_session", t.cached, 0,
                                    FALSE, None)
       IN  /\ tasks' = (tasks (-) SetToBag({t})) (+) SetToBag({t1})
           /\ last' = [op |-> "get_or_init_ssh_session:is_alive",
                       id |-> t.id, cached |-> t.cached, alive |-> alive]

\* the negotiation of a request ends (ssh_tunnel.rs:195-200): on success
\* the new session is put in the cache under the key and returned
TunnelRequestNegotiated(t, cfg, env) ==
    /\ UNCHANGED <<scanVars, key, value, error_messages>>
    /\ UNCHANGED <<last_operated_at, now, kv_delegate>>
    /\ t.name = "open_single_ssh_tunnel_connection"
    /\ t.at = "new_ssh_session"
    /\ LET r == new_ssh_session(cfg, env)
           session == FreshSession(SSH_SESSION, BagToSet(tasks))
           t1 == TunnelRequest(t.id, "returned", t.cached, 1, r.ok,
                               IF r.ok THEN Some(session) ELSE None)
       IN  /\ SSH_SESSION' = IF r.ok
                             THEN TtlInsert(SSH_SESSION, t.id, session)
                             ELSE SSH_SESSION
           /\ tasks' = (tasks (-) SetToBag({t})) (+) SetToBag({t1})
           /\ last' = [op |-> "get_or_init_ssh_session:new_ssh_session",
                       id |-> t.id, cached |-> t.cached, ok |-> r.ok]

\* Sessions stay alive once negotiated: the probe of a cached session
\* passes.
NextSshRace ==
    \/ \E id \in SshIds : TunnelRequestStart(id)
    \/ \E t \in BagToSet(tasks) : TunnelRequestProbed(t, TRUE)
    \/ \E t \in BagToSet(tasks), cfg \in SshCacheConfigs,
          env \in SshCacheEnvs : TunnelRequestNegotiated(t, cfg, env)

\* tunnel requests that run concurrently against servers whose sessions
\* stay alive
SpecSshRace == Init /\ [][NextSshRace]_vars

(***************************************************************************)
(* Key selection and the string and list values (server.rs:158-192,        *)
(* 691-855).  A value records in `for` the key its loading request named;  *)
(* `for` is history and is read only by the properties.                    *)
(***************************************************************************)
\* the list stored under a key when it has n elements
StoreList(n) == [i \in 1..n |-> i]

\* LRANGE key start stop: the elements at the 0-based indexes start..stop,
\* both ends included
LRange(list, start, stop) ==
    SubSeq(list, start + 1, IF stop + 1 < Len(list) THEN stop + 1 ELSE Len(list))

\* get_redis_list_value(conn, key, offset, count) (server.rs:158-178)
get_redis_list_value(list, offset, count) == LRange(list, offset, count)

\* RedisValue for a string key (server.rs:727-731)
StringValue(k, text) ==
    [for |-> k, key_type |-> "String", size |-> Len(text),
     data |-> [kind |-> "String", text |-> text]]

\* RedisValue for a list key (server.rs:732-737)
ListValue(k, list) ==
    [for |-> k, key_type |-> "List", size |-> 0,
     data |-> [kind |-> "List", size |-> Len(list),
               values |-> get_redis_list_value(list, 0, ListPage)]]

\* RedisValue::list_value (server.rs:195-200) is Some
IsList(v) == v # None /\ v.v.data.kind = "List"

\* ZedisListValues::is_done (list_editor.rs:94-99)
ListIsDone(v) ==
    IF ~IsList(v) THEN FALSE
    ELSE Len(v.v.data.values) = v.v.data.size

\* an end test that lets an empty list through
ListAtEndStrict(offset, size) == offset > size

\* load_more_list_value has nothing to fetch (server.rs:826-829)
ListAtEnd(offset, size) == offset >= size

\* ZedisServerState::select_key (server.rs:691-760), the call
SelectKey(k) ==
    /\ UNCHANGED <<error_messages, SSH_SESSION, now, kv_delegate>>
    /\ last_operated_at' = IF k # <<>> THEN now ELSE last_operated_at
    /\ server # ""
    /\ UNCHANGED <<scanVars, value>>
    /\ (IF key = None THEN <<>> ELSE key.v) # k
    /\ InFlight < MaxTasks
    /\ key' = Some(k)
    /\ LET new == <<[NoTask EXCEPT !.name = "select_key", !.server = server,
                                   !.key = k]>>
       IN  /\ tasks' = tasks (+) Spawned(new)
           /\ last' = [op |-> "select_key", stale |-> FALSE, ok |-> TRUE,
                       changed |-> {}, issued |-> Names(new), max |-> 0,
                       len |-> 0,
                arg |-> <<>>]

\* what the task of select_key may return (server.rs:704-746): an error
\* (no connection, or a type other than string and list), a string, or a
\* list of n elements; type is the reply of TYPE, "" when there was none
SelectKeyReplies(k) ==
    {[ok |-> FALSE, type |-> "", len |-> 0, value |-> None]}
    \cup {[ok |-> TRUE, type |-> "string", len |-> 0,
           value |-> Some(StringValue(k, x))] : x \in Texts}
    \cup {[ok |-> TRUE, type |-> "list", len |-> n,
           value |-> Some(ListValue(k, StoreList(n)))] : n \in 0..MaxListLen}

\* the callback of select_key (server.rs:747-757)
SelectKeyDone(t, r) ==
    /\ UNCHANGED <<scanVars, key>>
    /\ t.name = "select_key"
    /\ error_messages' = SpawnLog(error_messages, t.name, r.ok)
    /\ UNCHANGED <<SSH_SESSION, last_operated_at, now, kv_delegate>>
    /\ value' = IF r.ok THEN r.value ELSE None
    /\ tasks' = tasks (-) SetToBag({t})
    /\ last' = [op |-> "select_key_cb", task |-> t.name,
                log |-> error_messages, type |-> r.type,
                stale |-> (t.server # server \/ key # Some(t.key)),
                ok |-> r.ok, changed |-> {}, issued |-> <<>>, max |-> 0,
                len |-> r.len,
                arg |-> <<>>]

\* ZedisServerState::save_value (server.rs:786-814), the call, for the key
\* shown in the editor
SaveValue(text) ==
    /\ UNCHANGED <<error_messages, SSH_SESSION, now, kv_delegate>>
    /\ last_operated_at' = now
    /\ server # ""
    /\ UNCHANGED <<scanVars, key, value>>
    /\ key # None
    /\ InFlight < MaxTasks
    /\ LET new == <<[NoTask EXCEPT !.name = "save_value", !.server = server,
                                   !.key = key.v, !.text = text]>>
       IN  /\ tasks' = tasks (+) Spawned(new)
           /\ last' = [op |-> "save_value", stale |-> FALSE, ok |-> TRUE,
                       changed |-> {}, issued |-> Names(new), max |-> 0,
                       len |-> 0,
                arg |-> <<>>]

\* the callback of save_value (server.rs:803-812)
SaveValueDone(t, ok) ==
    /\ UNCHANGED <<scanVars, key>>
    /\ t.name = "save_value"
    /\ error_messages' = SpawnLog(error_messages, t.name, ok)
    /\ UNCHANGED <<SSH_SESSION, last_operated_at, now, kv_delegate>>
    /\ value' = IF ok /\ value # None
                THEN Some([value.v EXCEPT
                             !.size = Len(t.text),
                             !.data = [kind |-> "String", text |-> t.text]])
                ELSE value
    /\ tasks' = tasks (-) SetToBag({t})
    /\ last' = [op |-> "save_value_cb", task |-> t.name,
                log |-> error_messages,
                stale |-> (t.server # server \/ key # Some(t.key)),
                ok |-> ok, changed |-> {}, issued |-> <<>>, max |-> 0,
                len |-> 0,
                arg |-> <<>>]

\* ZedisServerState::load_more_list_value (server.rs:815-855), the call
LoadMoreListValue ==
    /\ UNCHANGED <<error_messages, SSH_SESSION, now, kv_delegate>>
    /\ last_operated_at' = IF key = None \/ key = Some(<<>>) \/ ~IsList(value)
                         THEN last_operated_at
                         ELSE IF ListAtEnd(Len(value.v.data.values),
                                           value.v.data.size)
                         THEN last_operated_at ELSE now
    /\ server # ""
    /\ UNCHANGED <<scanVars, key, value>>
    /\ InFlight < MaxTasks
    /\ LET new ==
            IF key = None \/ key = Some(<<>>) THEN <<>>
            ELSE IF ~IsList(value) THEN <<>>
            ELSE IF ListAtEnd(Len(value.v.data.values), value.v.data.size)
                 THEN <<>>
            ELSE <<[NoTask EXCEPT !.name = "load_more_list_value",
                                  !.server = server, !.key = key.v,
                                  !.offset = Len(value.v.data.values)]>>
       IN  /\ tasks' = tasks (+) Spawned(new)
           /\ last' = [op |-> "load_more_list_value", stale |-> FALSE,
                       ok |-> TRUE, changed |-> {}, issued |-> Names(new),
                       max |-> 0, len |-> 0,
                arg |-> <<>>]

\* what the task of load_more_list_value may return (server.rs:835-839): an
\* error, or the page at its offset of a list of n elements
LoadMoreListReplies(offset) ==
    {[ok |-> FALSE, values |-> <<>>]}
    \cup {[ok |-> TRUE,
           values |-> get_redis_list_value(StoreList(n), offset, ListPage)] :
            n \in 0..MaxListLen}

\* the callback of load_more_list_value (server.rs:840-853)
LoadMoreListDone(t, r) ==
    /\ UNCHANGED <<scanVars, key>>
    /\ t.name = "load_more_list_value"
    /\ error_messages' = SpawnLog(error_messages, t.name, r.ok)
    /\ UNCHANGED <<SSH_SESSION, last_operated_at, now, kv_delegate>>
    /\ value' = IF r.ok /\ IsList(value)
                THEN Some([value.v EXCEPT
                             !.data.values = value.v.data.values \o r.values])
                ELSE value
    /\ tasks' = tasks (-) SetToBag({t})
    /\ last' = [op |-> "load_more_list_value_cb", task |-> t.name,
                log |-> error_messages,
                stale |-> (t.server # server \/ key # Some(t.key)),
                ok |-> r.ok, changed |-> {}, issued |-> <<>>, max |-> 0,
                len |-> 0,
                arg |-> <<>>]

\* ZedisServerState::delete_key (server.rs:761-785), the call, for the key
\* shown in the editor
DeleteKey ==
    /\ UNCHANGED <<error_messages, SSH_SESSION, now, kv_delegate>>
    /\ last_operated_at' = now
    /\ server # ""
    /\ UNCHANGED <<scanVars, key, value>>
    /\ key # None
    /\ InFlight < MaxTasks
    /\ LET new == <<[NoTask EXCEPT !.name = "delete_key", !.server = server,
                                   !.key = key.v]>>
       IN  /\ tasks' = tasks (+) Spawned(new)
           /\ last' = [op |-> "delete_key", stale |-> FALSE, ok |-> TRUE,
                       changed |-> {}, issued |-> Names(new), max |-> 0,
                       len |-> 0,
                arg |-> <<>>]

\* the callback of delete_key (server.rs:775-783)
DeleteKeyDone(t, ok) ==
    /\ UNCHANGED <<server, keyword, cursors, scaning, scan_completed,
                   scan_times, loaded_prefixes, value, scan_resp>>
    /\ t.name = "delete_key"
    /\ error_messages' = SpawnLog(error_messages, t.name, ok)
    /\ UNCHANGED <<SSH_SESSION, last_operated_at, now, kv_delegate>>
    /\ keys' = IF ok /\ t.key \in StoreKeys
               THEN [keys EXCEPT ![t.key] = "Absent"] ELSE keys
    /\ key' = IF ok THEN None ELSE key
    /\ tasks' = tasks (-) SetToBag({t})
    /\ last' = [op |-> "delete_key_cb",
                       new_tree_id |-> ok,
                       task |-> t.name,
                log |-> error_messages,
                stale |-> (t.server # server \/ key # Some(t.key)),
                ok |-> ok, changed |-> ScanChanged, issued |-> <<>>,
                max |-> 0, len |-> 0,
                arg |-> <<>>]

\* scan replies of a store whose keyspace scan returns no key
ScanRepliesNoKeys(kw) == {r \in ScanReplies(kw) : r.keys = {}}
\* those of them that are no error
ScanRepliesEmpty(kw) == {r \in ScanRepliesNoKeys(kw) : r.ok}

NextValue ==
    \/ \E s \in Servers : Select(s)
    \/ \E t \in BagToSet(tasks) : SelectServerDone(t, TRUE)
    \/ \E t \in BagToSet(tasks) : \E r \in ScanRepliesEmpty(t.keyword) :
            ScanKeysDone(t, r)
    \/ \E k \in StoreKeys : SelectKey(k)
    \/ \E t \in BagToSet(tasks) : \E r \in Heard(SelectKeyReplies(t.key)) :
            SelectKeyDone(t, r)
    \/ \E x \in Texts : SaveValue(x)
    \/ \E t \in BagToSet(tasks), ok \in Outcomes : SaveValueDone(t, ok)
    \/ LoadMoreListValue
    \/ \E t \in BagToSet(tasks) : \E r \in Heard(LoadMoreListReplies(t.offset)) :
            LoadMoreListDone(t, r)
    \/ DeleteKey
    \/ \E t \in BagToSet(tasks), ok \in Outcomes : DeleteKeyDone(t, ok)

\* the user selects servers and keys and edits string and list values
SpecValue == Init /\ [][NextValue]_vars

\* what select_key returns for a list key of a store whose lists hold
\* MaxListLen elements and are not modified
FullListKeyReplies(k) ==
    {r \in SelectKeyReplies(k) : r.ok /\ r.type = "list" /\ r.len = MaxListLen}

\* what load_more_list_value returns for such a store
FullListLoadReplies(offset) ==
    {[ok |-> TRUE,
      values |-> get_redis_list_value(StoreList(MaxListLen), offset, ListPage)]}

NextListLoad ==
    \/ \E s \in Servers : Select(s)
    \/ \E t \in BagToSet(tasks) : SelectServerDone(t, TRUE)
    \/ \E t \in BagToSet(tasks) : \E r \in ScanRepliesEmpty(t.keyword) :
            ScanKeysDone(t, r)
    \/ \E k \in StoreKeys : SelectKey(k)
    \/ \E t \in BagToSet(tasks) : \E r \in FullListKeyReplies(t.key) :
            SelectKeyDone(t, r)
    \/ LoadMoreListValue
    \/ \E t \in BagToSet(tasks) : \E r \in FullListLoadReplies(t.offset) :
            LoadMoreListDone(t, r)

\* the user opens lists that no other client modifies and loads more of them
SpecListLoad == Init /\ [][NextListLoad]_vars

NextTreeId ==
    \/ \E s \in {"s1"} : Select(s)
    \/ \E t \in BagToSet(tasks) : SelectServerDone(t, TRUE)
    \/ \E kw \in Keywords : Scan(kw)
    \/ \E t \in BagToSet(tasks) : \E r \in ScanRepliesOk(t.keyword) :
            ScanKeysDone(t, r)
    \/ \E t \in BagToSet(tasks) : \E r \in FillRepliesOk(t) :
            FillKeyTypesDone(t, r)
    \/ \E k \in {<<"a">>} : SelectKey(k)
    \/ \E t \in BagToSet(tasks) : \E r \in FullListKeyReplies(t.key) :
            SelectKeyDone(t, r)
    \/ DeleteKey
    \/ \E t \in BagToSet(tasks), ok \in Outcomes : DeleteKeyDone(t, ok)

\* the user scans, opens keys and deletes them
SpecTreeId == Init /\ [][NextTreeId]_vars

NextErrors ==
    \/ \E s \in Servers : Select(s)
    \/ \E t \in BagToSet(tasks), ok \in BOOLEAN : SelectServerDone(t, ok)
    \/ \E t \in BagToSet(tasks) : \E r \in ScanRepliesNoKeys(t.keyword) :
            ScanKeysDone(t, r)

\* the user selects servers of which any task may fail, any number of times
SpecErrors == Init /\ [][NextErrors]_vars

\* The latest second the clock reaches.
MaxNow == 2

\* a second passes: unix_ts() (server.rs:82-84) returns one more
Tick ==
    /\ now < MaxNow
    /\ now' = now + 1
    /\ UNCHANGED <<scanVars, key, value, error_messages, SSH_SESSION,
                   last_operated_at, tasks, kv_delegate>>
    /\ last' = [op |-> "tick", stale |-> FALSE, ok |-> TRUE, changed |-> {},
                issued |-> <<>>, max |-> 0, len |-> 0, arg |-> <<>>]

NextShown ==
    \/ \E s \in Servers : Select(s)
    \/ \E t \in BagToSet(tasks), ok \in BOOLEAN : SelectServerDone(t, ok)
    \/ \E t \in BagToSet(tasks) : \E r \in ScanRepliesNoKeys(t.keyword) :
            ScanKeysDone(t, r)
    \/ Tick

\* the user selects servers while time passes; any task may fail
SpecShown == Init /\ [][NextShown]_vars

\* Replies of TYPE for the key that is opened.
OpenTypes == {"string", "list", "stream", "module"}

\* a task that answers a type without a loader with an empty string value
select_key_task_defaulting(k, t, text, list) ==
    IF KeyTypeFrom(t) = "List"
    THEN [ok |-> TRUE, type |-> t, len |-> Len(list),
          value |-> Some(ListValue(k, list))]
    ELSE [ok |-> TRUE, type |-> t, len |-> 0,
          value |-> Some(StringValue(k, IF KeyTypeFrom(t) = "String"
                                        THEN text ELSE <<>>))]

\* the task of select_key (server.rs:704-746) once it has a connection, for
\* a key of which TYPE replies t and that holds the text or the list
select_key_task(k, t, text, list) ==
    LET key_type == KeyTypeFrom(t)
    IN  CASE key_type = "String" ->
                [ok |-> TRUE, type |-> t, len |-> 0,
                 value |-> Some(StringValue(k, text))]
          [] key_type = "List" ->
                [ok |-> TRUE, type |-> t, len |-> Len(list),
                 value |-> Some(ListValue(k, list))]
          [] OTHER -> [ok |-> FALSE, type |-> t, len |-> 0, value |-> None]

\* what the task of select_key returns for the keys of a store
OpenReplies(k) ==
    {select_key_task(k, t, x, StoreList(n)) :
        t \in OpenTypes, x \in Texts, n \in 0..MaxListLen}

NextOpen ==
    \/ \E s \in {"s1"} : Select(s)
    \/ \E t \in BagToSet(tasks) : SelectServerDone(t, TRUE)
    \/ \E t \in BagToSet(tasks) : \E r \in Heard(ScanReplies(t.keyword)) :
            ScanKeysDone(t, r)
    \/ \E t \in BagToSet(tasks) : \E r \in FillRepliesOk(t) :
            FillKeyTypesDone(t, r)
    \/ \E k \in StoreKeys : SelectKey(k)
    \/ \E t \in BagToSet(tasks) : \E r \in OpenReplies(t.key) :
            SelectKeyDone(t, r)

\* the user opens keys of every type, with and without a loader
SpecOpen == Init /\ [][NextOpen]_vars

(***************************************************************************)
(* Typed values (states/server/{zset,set,hash}.rs).  The dispatch of        *)
(* select_key to first_load_*_value and try_get_mut_key_value are not in   *)
(* the sources at hand: the reply of select_key for such a key is what     *)
(* first_load_*_value returns, and try_get_mut_key_value yields the key    *)
(* and the value when both are present.                                    *)
(***************************************************************************)
\* the key and value are present (try_get_mut_key_value is Some)
try_get_mut_key_value == key # None /\ key # Some(<<>>) /\ value # None

\* the value with its status field set
WithStatus(v, st) == IF v = None THEN None ELSE Some([v.v EXCEPT !.status = st])

(***************************************************************************)
(* Sorted sets (zset.rs).  A store's sorted set maps each member to its    *)
(* score, 0 standing for "not a member"; m3 is a member only once added.   *)
(***************************************************************************)
ZStores == {st \in [ZMembers -> ZScores \cup {0}] : st["m3"] = 0}

\* the lexicographic rank of a member
ZMemberRank(m) == CASE m = "m1" -> 1 [] m = "m2" -> 2 [] OTHER -> 3

\* member x with score a comes before member y with score b in ZRANGE:
\* by score, then by member
ZLess(x, a, y, b) == a < b \/ (a = b /\ ZMemberRank(x) < ZMemberRank(y))

RECURSIVE ZSorted(_, _)
\* the members M of store st in ZRANGE order, as (member, score) pairs
ZSorted(st, M) ==
    IF M = {} THEN <<>>
    ELSE LET m == CHOOSE x \in M :
                    \A y \in M \ {x} : ZLess(x, st[x], y, st[y])
         IN  <<(<<m, st[m]>>)>> \o ZSorted(st, M \ {m})

Reverse(s) == [i \in 1..Len(s) |-> s[Len(s) + 1 - i]]

\* get_redis_zset_value (zset.rs:54-92): ZRANGE or ZREVRANGE start stop
get_redis_zset_value(st, sort_order, start, stop) ==
    LET asc == ZSorted(st, {m \in ZMembers : st[m] # 0})
        all == IF sort_order = "Asc" THEN asc ELSE Reverse(asc)
    IN  LRange(all, start, stop)

\* first_load_zset_value (zset.rs:161-183)
first_load_zset_value(k, st, sort_order) ==
    [for |-> k, key_type |-> "Zset", size |-> 0, status |-> "Idle",
     data |-> [kind |-> "Zset",
               size |-> Cardinality({m \in ZMembers : st[m] # 0}),
               values |-> get_redis_zset_value(st, sort_order, 0,
                                               ZsetPage - 1),
               sort_order |-> sort_order, keyword |-> None,
               cursor |-> 0, done |-> FALSE]]

\* RedisValue::zset_value is Some
IsZset(v) == v # None /\ v.v.data.kind = "Zset"

\* what select_key returns for a sorted-set key
ZsetKeyReplies(k) ==
    {[ok |-> TRUE, type |-> "zset", len |-> 0,
      value |-> Some(first_load_zset_value(k, st, o))] :
        st \in ZStores, o \in {"Asc", "Desc"}}

\* a comparison that ignores the sort order
ZsetBeforeAscOnly(sort_order, v, score) == v < score

\* the predicate handed to partition_point (zset.rs:271-277)
ZsetBefore(sort_order, v, score) ==
    IF sort_order = "Asc" THEN v < score ELSE v > score

RECURSIVE PartitionPoint(_, _, _, _, _)
\* slice::partition_point: a binary search over values[left+1..right]
PartitionPoint(values, sort_order, score, left, right) ==
    IF left >= right THEN left
    ELSE LET mid == left + ((right - left) \div 2)
         IN  IF ZsetBefore(sort_order, values[mid + 1][2], score)
             THEN PartitionPoint(values, sort_order, score, mid + 1, right)
             ELSE PartitionPoint(values, sort_order, score, left, mid)

\* Vec::insert(index, x), index 0-based
InsertAt(s, index, x) ==
    SubSeq(s, 1, index) \o <<x>> \o SubSeq(s, index + 1, Len(s))

\* the buffer after the callback of add_or_update_zset_value
\* (zset.rs:256-284)
ZsetValuesAfterAdd(z, member, score) ==
    IF \E i \in 1..Len(z.values) : z.values[i][1] = member
    THEN LET i == CHOOSE j \in 1..Len(z.values) :
                    /\ z.values[j][1] = member
                    /\ \A h \in 1..(j - 1) : z.values[h][1] # member
         IN  [z.values EXCEPT ![i] = <<member, score>>]
    ELSE IF z.keyword # None THEN z.values
    ELSE LET index == PartitionPoint(z.values, z.sort_order, score, 0,
                                     Len(z.values))
         IN  IF index # Len(z.values)
             THEN InsertAt(z.values, index, <<member, score>>)
             ELSE z.values

\* ZedisServerState::add_or_update_zset_value (zset.rs:211-300), the call
AddZsetValue(member, score) ==
    /\ UNCHANGED <<error_messages, SSH_SESSION, last_operated_at, now,
                   kv_delegate>>
    /\ server # ""
    /\ UNCHANGED <<scanVars, key>>
    /\ try_get_mut_key_value
    /\ IsZset(value) /\ value.v.data.size < MaxZsetSize
    /\ InFlight < MaxTasks
    /\ value' = WithStatus(value, "Updating")
    /\ LET new == <<[NoTask EXCEPT !.name = "add_zset_value",
                                   !.server = server, !.key = key.v,
                                   !.text = member, !.offset = score]>>
       IN  /\ tasks' = tasks (+) Spawned(new)
           /\ last' = [op |-> "add_zset_value", stale |-> FALSE, ok |-> TRUE,
                       changed |-> {}, issued |-> Names(new), max |-> 0,
                       len |-> 0,
                arg |-> <<>>]

\* the callback of add_or_update_zset_value (zset.rs:241-297); count is the
\* reply of ZADD
AddZsetValueDone(t, ok, count) ==
    /\ UNCHANGED <<scanVars, key>>
    /\ t.name = "add_zset_value"
    /\ error_messages' = SpawnLog(error_messages, t.name, ok)
    /\ UNCHANGED <<SSH_SESSION, last_operated_at, now, kv_delegate>>
    /\ LET v1 == WithStatus(value, "Idle")
       IN  value' =
             IF ok /\ IsZset(v1)
             THEN Some([v1.v EXCEPT
                          !.data.size = @ + count,
                          !.data.values =
                              ZsetValuesAfterAdd(v1.v.data, t.text, t.offset)])
             ELSE v1
    /\ tasks' = tasks (-) SetToBag({t})
    /\ last' = [op |-> "add_zset_value_cb", task |-> t.name,
                log |-> error_messages,
                stale |-> (t.server # server \/ key # Some(t.key)),
                ok |-> ok,
                changed |->
                    IF IsZset(value) /\ IsZset(value')
                       /\ Len(value'.v.data.values) > Len(value.v.data.values)
                    THEN {"inserted"} ELSE {},
                issued |-> <<>>, max |-> 0, len |-> 0,
                arg |-> <<>>]

NextZset ==
    \/ \E s \in {"s1"} : Select(s)
    \/ \E t \in BagToSet(tasks) : SelectServerDone(t, TRUE)
    \/ \E t \in BagToSet(tasks) : \E r \in ScanRepliesEmpty(t.keyword) :
            ScanKeysDone(t, r)
    \/ \E k \in {<<"a">>} : SelectKey(k)
    \/ \E t \in BagToSet(tasks) : \E r \in Heard(ZsetKeyReplies(t.key)) :
            SelectKeyDone(t, r)
    \/ \E m \in ZMembers, sc \in ZScores : AddZsetValue(m, sc)
    \/ \E t \in BagToSet(tasks), ok \in Outcomes, count \in {0, 1} :
            AddZsetValueDone(t, ok, count)

\* the user opens a sorted set and adds members
SpecZset == Init /\ [][NextZset]_vars

\* usize arithmetic wraps at the width of usize in a release build (a debug
\* build panics instead); the model scales the width down to this modulus.
UsizeMod == 4
\* a - b in usize
UsizeSub(a, b) == (a - b) % UsizeMod

\* the members the buffer of a sorted set holds
ZsetMembers(values) == {values[i][1] : i \in 1..Len(values)}

\* Vec::retain(|(name, _)| name != member) (zset.rs:478)
RetainOtherMembers(values, member) ==
    SelectSeq(values, LAMBDA e : e[1] # member)

\* ZedisServerState::remove_zset_value (zset.rs:443-492), the call; the
\* editor passes the member of a row of the buffer (zset_editor.rs:79-89)
RemoveZsetValue(member) ==
    /\ UNCHANGED <<error_messages, SSH_SESSION, last_operated_at, now,
                   kv_delegate>>
    /\ server # ""
    /\ UNCHANGED <<scanVars, key>>
    /\ try_get_mut_key_value
    /\ IsZset(value) /\ member \in ZsetMembers(value.v.data.values)
    /\ InFlight < MaxTasks
    /\ value' = WithStatus(value, "Loading")
    /\ LET new == <<[NoTask EXCEPT !.name = "remove_zset_value",
                                   !.server = server, !.key = key.v,
                                   !.text = member]>>
       IN  /\ tasks' = tasks (+) Spawned(new)
           /\ last' = [op |-> "remove_zset_value", stale |-> FALSE,
                       ok |-> TRUE, changed |-> {}, issued |-> Names(new),
                       max |-> 0, len |-> 0, arg |-> member]

\* the local cardinality after a successful ZREM (zset.rs:479)
ZsetSizeAfterRemove(size, count) == UsizeSub(size, 1)

\* the callback of remove_zset_value (zset.rs:471-491); count is the number
\* of members ZREM reports as removed, which the task reads as ()
RemoveZsetValueDone(t, ok, count) ==
    /\ UNCHANGED <<scanVars, key>>
    /\ t.name = "remove_zset_value"
    /\ error_messages' = SpawnLog(error_messages, t.name, ok)
    /\ UNCHANGED <<SSH_SESSION, last_operated_at, now, kv_delegate>>
    /\ LET v1 == IF ok /\ IsZset(value)
                 THEN Some([value.v EXCEPT
                              !.data.values = RetainOtherMembers(@, t.text),
                              !.data.size = ZsetSizeAfterRemove(@, count)])
                 ELSE value
       IN  value' = WithStatus(v1, "Idle")
    /\ tasks' = tasks (-) SetToBag({t})
    /\ last' = [op |-> "remove_zset_value_cb", task |-> t.name,
                log |-> error_messages,
                stale |-> (t.server # server \/ key # Some(t.key)),
                ok |-> ok, changed |-> {}, issued |-> <<>>, max |-> 0,
                len |-> count, arg |-> t.text]

NextZsetRemove ==
    \/ \E s \in {"s1"} : Select(s)
    \/ \E t \in BagToSet(tasks) : SelectServerDone(t, TRUE)
    \/ \E t \in BagToSet(tasks) : \E r \in ScanRepliesEmpty(t.keyword) :
            ScanKeysDone(t, r)
    \/ \E k \in {<<"a">>} : SelectKey(k)
    \/ \E t \in BagToSet(tasks) : \E r \in ZsetKeyReplies(t.key) :
            SelectKeyDone(t, r)
    \/ \E m \in ZMembers : RemoveZsetValue(m)
    \/ \E t \in BagToSet(tasks), ok \in Outcomes, count \in {0, 1} :
            RemoveZsetValueDone(t, ok, count)

\* the user opens a sorted set and removes members
SpecZsetRemove == Init /\ [][NextZsetRemove]_vars

(***************************************************************************)
(* Sets (set.rs).                                                          *)
(***************************************************************************)
RECURSIVE SetToSeq(_)
\* the members of S in the order SSCAN returns them
SetToSeq(S) ==
    IF S = {} THEN <<>>
    ELSE LET m == CHOOSE x \in S :
                    \A y \in S \ {x} : ZMemberRank(x) < ZMemberRank(y)
         IN  <<m>> \o SetToSeq(S \ {m})

\* first_load_set_value (set.rs:90-111) for a store holding st, whose
\* first SSCAN returns the members of part and the given cursor
first_load_set_value(k, st, part, cursor) ==
    [for |-> k, key_type |-> "Set", size |-> 0, status |-> "Idle",
     data |-> [kind |-> "Set", cursor |-> cursor,
               size |-> Cardinality(st), values |-> SetToSeq(part),
               done |-> (cursor = 0), keyword |-> None]]

\* RedisValue::set_value is Some
IsSet(v) == v # None /\ v.v.data.kind = "Set"

\* what select_key returns for a set key: a scan that ends returns every
\* member, one that does not returns some of them
SetKeyReplies(k) ==
    {[ok |-> TRUE, type |-> "set", len |-> 0,
      value |-> Some(first_load_set_value(k, st, st, 0))] :
        st \in SUBSET SMembers}
    \cup {[ok |-> TRUE, type |-> "set", len |-> 0,
           value |-> Some(first_load_set_value(k, p[1], p[2], 1))] :
            p \in {q \in (SUBSET SMembers) \X (SUBSET SMembers) :
                      q[1] # {} /\ q[2] \subseteq q[1]}}

\* a test that takes every reply for a new member
SetAddIsNewAlways(count) == TRUE

\* SADD added the member (set.rs:158-164)
SetAddIsNew(count) == count # 0

\* ZedisServerState::add_set_value (set.rs:122-187), the call
AddSetValue(member) ==
    /\ UNCHANGED <<error_messages, SSH_SESSION, last_operated_at, now,
                   kv_delegate>>
    /\ server # ""
    /\ UNCHANGED <<scanVars, key>>
    /\ try_get_mut_key_value
    /\ IsSet(value) /\ value.v.data.size < MaxSetSize
    /\ InFlight < MaxTasks
    /\ value' = WithStatus(value, "Updating")
    /\ LET new == <<[NoTask EXCEPT !.name = "add_set_value",
                                   !.server = server, !.key = key.v,
                                   !.text = member]>>
       IN  /\ tasks' = tasks (+) Spawned(new)
           /\ last' = [op |-> "add_set_value", stale |-> FALSE, ok |-> TRUE,
                       changed |-> {}, issued |-> Names(new), max |-> 0,
                       len |-> 0, arg |-> member]

\* the set after a reply that added count members (set.rs:169-176)
SetAfterAdd(set, member, count) ==
    [set EXCEPT
       !.size = @ + count,
       !.values = IF set.done /\ member \notin Range(set.values)
                  THEN Append(@, member) ELSE @]

\* the callback of add_set_value (set.rs:151-184); count is the reply of
\* SADD
AddSetValueDone(t, ok, count) ==
    /\ UNCHANGED <<scanVars, key>>
    /\ t.name = "add_set_value"
    /\ error_messages' = SpawnLog(error_messages, t.name, ok)
    /\ UNCHANGED <<SSH_SESSION, last_operated_at, now, kv_delegate>>
    /\ LET v1 == WithStatus(value, "Idle")
       IN  value' =
             IF ok /\ SetAddIsNew(count) /\ IsSet(v1)
             THEN Some([v1.v EXCEPT
                          !.data = SetAfterAdd(v1.v.data, t.text, count)])
             ELSE v1
    /\ tasks' = tasks (-) SetToBag({t})
    /\ last' = [op |-> "add_set_value_cb", task |-> t.name,
                log |-> error_messages,
                stale |-> (t.server # server \/ key # Some(t.key)),
                ok |-> ok, changed |-> {}, issued |-> <<>>, max |-> 0,
                len |-> count, arg |-> t.text]

NextSet ==
    \/ \E s \in {"s1"} : Select(s)
    \/ \E t \in BagToSet(tasks) : SelectServerDone(t, TRUE)
    \/ \E t \in BagToSet(tasks) : \E r \in ScanRepliesEmpty(t.keyword) :
            ScanKeysDone(t, r)
    \/ \E k \in {<<"a">>} : SelectKey(k)
    \/ \E t \in BagToSet(tasks) : \E r \in Heard(SetKeyReplies(t.key)) :
            SelectKeyDone(t, r)
    \/ \E m \in SMembers : AddSetValue(m)
    \/ \E t \in BagToSet(tasks), ok \in Outcomes, count \in {0, 1} :
            AddSetValueDone(t, ok, count)

\* the user opens a set and adds members
SpecSet == Init /\ [][NextSet]_vars

\* the entries a filtered set buffers before its loader stops on its own
\* (set.rs:277)
SetAutoLoadMin == 2
\* the entries a set buffers before the user stops asking for more
MaxSetBuf == 2
\* the keywords the user filters a set or a sorted set by
MemberKeywords == {<<>>, <<"1">>}

\* the characters of a member
MemberText(m) ==
    CASE m = "m1" -> <<"m", "1">>
      [] m = "m2" -> <<"m", "2">>
      [] OTHER -> <<"m", "3">>

\* the member matches the pattern get_redis_set_value builds from the
\* keyword (set.rs:48-52): *keyword*, or * without a keyword
MatchesPattern(m, kw) ==
    kw = None \/ Contains(MemberText(m), kw.v)

\* The request load_more_set_value issues when called with value v
\* (set.rs:223-252): none without key and value or when the value is not a
\* set, else one carrying the cursor and the keyword of the set.
LoadMoreSetSpawn(v) ==
    IF ~(key # None /\ key # Some(<<>>) /\ v # None) THEN <<>>
    ELSE IF ~IsSet(v) THEN <<>>
    ELSE <<[NoTask EXCEPT !.name = "load_more_set_value",
                          !.server = server, !.key = key.v,
                          !.offset = v.v.data.cursor,
                          !.filter = v.v.data.keyword]>>

\* the value load_more_set_value leaves when called with value v: its
\* status is Loading once key and value are present (set.rs:224-230)
LoadMoreSetStatus(v) ==
    IF key # None /\ key # Some(<<>>) /\ v # None
    THEN WithStatus(v, "Loading") ELSE v

\* ZedisServerState::load_more_set_value (set.rs:223-297), the call, made
\* by the table while the set is not done (kv_delegate.rs:309-317)
LoadMoreSetValue ==
    /\ UNCHANGED <<error_messages, SSH_SESSION, last_operated_at, now,
                   kv_delegate>>
    /\ server # ""
    /\ UNCHANGED <<scanVars, key>>
    /\ IsSet(value) /\ ~value.v.data.done
    /\ Len(value.v.data.values) < MaxSetBuf
    /\ InFlight < MaxTasks
    /\ LET new == LoadMoreSetSpawn(value)
       IN  /\ value' = LoadMoreSetStatus(value)
           /\ tasks' = tasks (+) Spawned(new)
           /\ last' = [op |-> "load_more_set_value", stale |-> FALSE,
                       ok |-> TRUE, changed |-> {}, issued |-> Names(new),
                       max |-> 0, len |-> 0, arg |-> <<>>]

\* a new set state that forgets the cardinality
FilteredSetUncounted(size, kw) ==
    [kind |-> "Set", cursor |-> 0, size |-> 0, values |-> <<>>,
     done |-> FALSE, keyword |-> Some(kw)]

\* the set state filter_set_value creates (set.rs:204-209): the keyword, the
\* cardinality of the set it replaces, and defaults
FilteredSet(size, kw) ==
    [kind |-> "Set", cursor |-> 0, size |-> size, values |-> <<>>,
     done |-> FALSE, keyword |-> Some(kw)]

\* ZedisServerState::filter_set_value (set.rs:196-214)
FilterSetValue(kw) ==
    /\ UNCHANGED <<error_messages, SSH_SESSION, last_operated_at, now,
                   kv_delegate>>
    /\ server # ""
    /\ UNCHANGED <<scanVars, key>>
    /\ IsSet(value)
    /\ InFlight < MaxTasks
    /\ LET v1 == Some([value.v EXCEPT
                         !.data = FilteredSet(value.v.data.size, kw)])
           new == LoadMoreSetSpawn(v1)
       IN  /\ value' = LoadMoreSetStatus(v1)
           /\ tasks' = tasks (+) Spawned(new)
           /\ last' = [op |-> "filter_set_value", stale |-> FALSE,
                       ok |-> TRUE, changed |-> {}, issued |-> Names(new),
                       max |-> 0, len |-> 0, arg |-> kw]

\* the replies of SSCAN with the pattern of the request (set.rs:41-76): an
\* error, or a cursor and members that match the pattern
SetScanReplies(t) ==
    {[ok |-> FALSE, cursor |-> 0, values |-> <<>>]}
    \cup {[ok |-> TRUE, cursor |-> c, values |-> SetToSeq(S)] :
            c \in {0, 1},
            S \in SUBSET {m \in SMembers : MatchesPattern(m, t.filter)}}

\* should_load_more (set.rs:277-279); kw is the keyword of the request
SetShouldLoadMore(kw, done, n) ==
    kw # None /\ kw.v # <<>> /\ ~done /\ n < SetAutoLoadMin

\* the callback of load_more_set_value (set.rs:256-294)
LoadMoreSetValueDone(t, r) ==
    /\ UNCHANGED <<scanVars, key>>
    /\ t.name = "load_more_set_value"
    /\ error_messages' = SpawnLog(error_messages, t.name, r.ok)
    /\ UNCHANGED <<SSH_SESSION, last_operated_at, now, kv_delegate>>
    /\ LET applies == r.ok /\ IsSet(value)
           v1 == IF applies
                 THEN Some([value.v EXCEPT
                              !.data.cursor = r.cursor,
                              !.data.done = (@ \/ r.cursor = 0),
                              !.data.values = @ \o r.values])
                 ELSE value
           more == applies /\ SetShouldLoadMore(t.filter, v1.v.data.done,
                                                Len(v1.v.data.values))
           v2 == WithStatus(v1, "Idle")
           new == IF more THEN LoadMoreSetSpawn(v2) ELSE <<>>
       IN  /\ value' = IF more THEN LoadMoreSetStatus(v2) ELSE v2
           /\ tasks' = (tasks (-) SetToBag({t})) (+) Spawned(new)
           /\ last' = [op |-> "load_more_set_value_cb", task |-> t.name,
                       log |-> error_messages,
                       stale |-> (t.server # server \/ key # Some(t.key)),
                       ok |-> r.ok, changed |-> {}, issued |-> Names(new),
                       max |-> 0, len |-> r.cursor, arg |-> <<>>]

\* ZedisServerState::remove_set_value (set.rs:306-352), the call
RemoveSetValue(member) ==
    /\ UNCHANGED <<error_messages, SSH_SESSION, last_operated_at, now,
                   kv_delegate>>
    /\ server # ""
    /\ UNCHANGED <<scanVars, key>>
    /\ try_get_mut_key_value
    /\ InFlight < MaxTasks
    /\ value' = WithStatus(value, "Loading")
    /\ LET new == <<[NoTask EXCEPT !.name = "remove_set_value",
                                   !.server = server, !.key = key.v,
                                   !.text = member]>>
       IN  /\ tasks' = tasks (+) Spawned(new)
           /\ last' = [op |-> "remove_set_value", stale |-> FALSE,
                       ok |-> TRUE, changed |-> {}, issued |-> Names(new),
                       max |-> 0, len |-> 0, arg |-> member]

\* the replies of SREM: an error, or the number of members removed, which
\* a store never reports above the cardinality it reported before
SetRemoveReplies ==
    {[ok |-> FALSE, count |-> 0]}
    \cup {[ok |-> TRUE, count |-> c] :
            c \in {n \in {0, 1} : IsSet(value) => n <= value.v.data.size}}

\* the callback of remove_set_value (set.rs:334-349)
RemoveSetValueDone(t, r) ==
    /\ UNCHANGED <<scanVars, key>>
    /\ t.name = "remove_set_value"
    /\ error_messages' = SpawnLog(error_messages, t.name, r.ok)
    /\ UNCHANGED <<SSH_SESSION, last_operated_at, now, kv_delegate>>
    /\ LET v1 == IF r.ok /\ IsSet(value)
                 THEN Some([value.v EXCEPT
                              !.data.size = @ - r.count,
                              !.data.values =
                                 SelectSeq(@, LAMBDA m : m # t.text)])
                 ELSE value
       IN  value' = WithStatus(v1, "Idle")
    /\ tasks' = tasks (-) SetToBag({t})
    /\ last' = [op |-> "remove_set_value_cb", task |-> t.name,
                log |-> error_messages,
                stale |-> (t.server # server \/ key # Some(t.key)),
                ok |-> r.ok, changed |-> {}, issued |-> <<>>, max |-> 0,
                len |-> r.count, arg |-> t.text]

\* The specifications of the filters have the user act while at most one
\* request is in flight.
Calm == InFlight <= 1

\* the replies of select_key for a set whose first SSCAN returned every
\* member
SetKeyRepliesWhole(k) == {r \in SetKeyReplies(k) : r.value.v.data.done}

NextSetFilter ==
    \/ \E s \in {"s1"} : Select(s)
    \/ \E t \in BagToSet(tasks) : SelectServerDone(t, TRUE)
    \/ \E t \in BagToSet(tasks) : \E r \in ScanRepliesEmpty(t.keyword) :
            ScanKeysDone(t, r)
    \/ Calm /\ \E k \in {<<"a">>} : SelectKey(k)
    \/ \E t \in BagToSet(tasks) : \E r \in SetKeyRepliesWhole(t.key) :
            SelectKeyDone(t, r)
    \/ Calm /\ LoadMoreSetValue
    \/ Calm /\ \E kw \in MemberKeywords : FilterSetValue(kw)
    \/ \E t \in BagToSet(tasks) : \E r \in SetScanReplies(t) :
            r.ok /\ LoadMoreSetValueDone(t, r)
    \/ Calm /\ \E m \in SMembers : AddSetValue(m)
    \/ \E t \in BagToSet(tasks), count \in {0, 1} :
            AddSetValueDone(t, TRUE, count)
    \/ Calm /\ \E m \in SMembers : RemoveSetValue(m)
    \/ \E t \in BagToSet(tasks) : \E r \in SetRemoveReplies :
            r.ok /\ RemoveSetValueDone(t, r)

\* the user opens a set, filters it, loads more of it, and adds and removes
\* members, against a store that answers every command
SpecSetFilter == Init /\ [][NextSetFilter]_vars

(***************************************************************************)
(* The loader and the filter of sorted sets (zset.rs:310-434).             *)
(***************************************************************************)
\* the entries a filtered sorted set buffers before its loader stops on its
\* own (zset.rs:413)
ZsetAutoLoadMin == 2
\* the entries a sorted set buffers before the user stops asking for more
MaxZsetBuf == 2
\* the variants of SortOrder
SortOrders == {"Asc", "Desc"}

\* The request load_more_zset_value issues when called with value v
\* (zset.rs:343-387): none without key and value or when the value is not a
\* sorted set, else one carrying the length of the buffer, the sort order,
\* the keyword ("" without one) and the cursor of the sorted set.
LoadMoreZsetSpawn(v) ==
    IF ~(key # None /\ key # Some(<<>>) /\ v # None) THEN <<>>
    ELSE IF ~IsZset(v) THEN <<>>
    ELSE <<[NoTask EXCEPT !.name = "load_more_zset_value",
                          !.server = server, !.key = key.v,
                          !.offset = Len(v.v.data.values),
                          !.filter = v.v.data.keyword,
                          !.sort_order = v.v.data.sort_order,
                          !.cursor = v.v.data.cursor]>>

\* the value load_more_zset_value leaves when called with value v: its
\* status is Loading once key and value are present (zset.rs:344-350)
LoadMoreZsetStatus(v) ==
    IF key # None /\ key # Some(<<>>) /\ v # None
    THEN WithStatus(v, "Loading") ELSE v

\* ZedisServerState::load_more_zset_value (zset.rs:343-434), the call
LoadMoreZsetValue ==
    /\ UNCHANGED <<error_messages, SSH_SESSION, last_operated_at, now,
                   kv_delegate>>
    /\ server # ""
    /\ UNCHANGED <<scanVars, key>>
    /\ IsZset(value) /\ ~value.v.data.done
    /\ Len(value.v.data.values) < MaxZsetBuf
    /\ InFlight < MaxTasks
    /\ LET new == LoadMoreZsetSpawn(value)
       IN  /\ value' = LoadMoreZsetStatus(value)
           /\ tasks' = tasks (+) Spawned(new)
           /\ last' = [op |-> "load_more_zset_value", stale |-> FALSE,
                       ok |-> TRUE, changed |-> {}, issued |-> Names(new),
                       max |-> 0, len |-> 0, arg |-> <<>>]

\* the keyword filter_zset_value stores (zset.rs:318-319)
ZsetKeyword(kw) == IF kw = <<>> THEN None ELSE Some(kw)

\* ZedisServerState::filter_zset_value (zset.rs:310-331).  The fields
\* other than keyword and size are those of RedisZsetValue::default()
\* (zset.rs:322-326): default_order is what SortOrder::default() is, which
\* the files of the model do not define.
FilterZsetValue(kw, default_order) ==
    /\ UNCHANGED <<error_messages, SSH_SESSION, last_operated_at, now,
                   kv_delegate>>
    /\ server # ""
    /\ UNCHANGED <<scanVars, key>>
    /\ try_get_mut_key_value
    /\ IsZset(value)
    /\ InFlight < MaxTasks
    /\ LET v1 == Some([value.v EXCEPT
                         !.data = [kind |-> "Zset", cursor |-> 0,
                                   size |-> value.v.data.size,
                                   values |-> <<>>, done |-> FALSE,
                                   sort_order |-> default_order,
                                   keyword |-> ZsetKeyword(kw)]])
           new == LoadMoreZsetSpawn(v1)
       IN  /\ value' = LoadMoreZsetStatus(v1)
           /\ tasks' = tasks (+) Spawned(new)
           /\ last' = [op |-> "filter_zset_value", stale |-> FALSE,
                       ok |-> TRUE, changed |-> {}, issued |-> Names(new),
                       max |-> 0, len |-> 0, arg |-> kw]

\* the task of load_more_zset_value (zset.rs:373-387) against the store st:
\* without a keyword the next page in the sort order of the request and
\* cursor 0, with one a ZSCAN batch of the matching members and a cursor
load_more_zset_task(t, st, cursor) ==
    IF t.filter = None
    THEN [ok |-> TRUE, cursor |-> 0,
          values |-> get_redis_zset_value(st, t.sort_order, t.offset,
                                          t.offset + ZsetPage - 1)]
    ELSE [ok |-> TRUE, cursor |-> cursor,
          values |-> ZSorted(st, {m \in ZMembers :
                                    st[m] # 0 /\ MatchesPattern(m, t.filter)})]

\* what the task of load_more_zset_value returns
ZsetLoadReplies(t) ==
    {[ok |-> FALSE, cursor |-> 0, values |-> <<>>]}
    \cup {load_more_zset_task(t, st, c) : st \in ZStores, c \in {0, 1}}

\* the callback of load_more_zset_value (zset.rs:389-431)
LoadMoreZsetValueDone(t, r) ==
    /\ UNCHANGED <<scanVars, key>>
    /\ t.name = "load_more_zset_value"
    /\ error_messages' = SpawnLog(error_messages, t.name, r.ok)
    /\ UNCHANGED <<SSH_SESSION, last_operated_at, now, kv_delegate>>
    /\ LET applies == r.ok /\ IsZset(value)
           filtered == t.filter # None
           v1 == IF applies
                 THEN Some([value.v EXCEPT
                              !.data.values = @ \o r.values,
                              !.data.cursor =
                                 IF filtered THEN r.cursor ELSE @,
                              !.data.done =
                                 @ \/ (filtered /\ r.cursor = 0)])
                 ELSE value
           more == /\ applies /\ filtered /\ ~v1.v.data.done
                   /\ Len(v1.v.data.values) < ZsetAutoLoadMin
           v2 == WithStatus(v1, "Idle")
           new == IF more THEN LoadMoreZsetSpawn(v2) ELSE <<>>
       IN  /\ value' = IF more THEN LoadMoreZsetStatus(v2) ELSE v2
           /\ tasks' = (tasks (-) SetToBag({t})) (+) Spawned(new)
           /\ last' = [op |-> "load_more_zset_value_cb", task |-> t.name,
                       log |-> error_messages,
                       stale |-> (t.server # server \/ key # Some(t.key)),
                       ok |-> r.ok, changed |-> {}, issued |-> Names(new),
                       max |-> 0, len |-> r.cursor, arg |-> <<>>]

NextZsetFilter ==
    \/ \E s \in {"s1"} : Select(s)
    \/ \E t \in BagToSet(tasks) : SelectServerDone(t, TRUE)
    \/ \E t \in BagToSet(tasks) : \E r \in ScanRepliesEmpty(t.keyword) :
            ScanKeysDone(t, r)
    \/ Calm /\ \E k \in {<<"a">>} : SelectKey(k)
    \/ \E t \in BagToSet(tasks) : \E r \in ZsetKeyReplies(t.key) :
            SelectKeyDone(t, r)
    \/ Calm /\ LoadMoreZsetValue
    \/ Calm /\ \E kw \in MemberKeywords, d \in SortOrders :
            FilterZsetValue(kw, d)
    \/ \E t \in BagToSet(tasks) : \E r \in Heard(ZsetLoadReplies(t)) :
            LoadMoreZsetValueDone(t, r)

\* the user opens a sorted set, filters it and loads more of it
SpecZsetFilter == Init /\ [][NextZsetFilter]_vars

\* the texts typed into the score field of the add form
ScoreTexts == {"1", "2", "x", ""}

\* str::parse::<f64> (zset_editor.rs:101) over the texts of the form:
\* Some(score) for a number, None for a text that is not one
ParseF64(text) ==
    CASE text = "1" -> Some(1)
      [] text = "2" -> Some(2)
      [] OTHER -> None

\* Result::unwrap_or (zset_editor.rs:101)
UnwrapOr(parsed, default) == IF parsed.some THEN parsed.v ELSE default

\* the score the submit handler hands to add_zset_value (zset_editor.rs:101)
SubmittedScore(text) == UnwrapOr(ParseF64(text), 0)

\* the submit handler of the add form (zset_editor.rs:97-107): a form that
\* does not hold two fields is rejected, otherwise add_zset_value runs with
\* the member and the score (zset.rs:197-199, 211-239)
HandleAddValue(values) ==
    /\ UNCHANGED <<error_messages, SSH_SESSION, last_operated_at, now,
                   kv_delegate>>
    /\ server # ""
    /\ UNCHANGED <<scanVars, key>>
    /\ IF Len(values) # 2
       THEN /\ UNCHANGED <<value, tasks>>
            /\ last' = [op |-> "handle_add_value", stale |-> FALSE,
                        ok |-> FALSE, changed |-> {}, issued |-> <<>>,
                        max |-> 0, len |-> 0, arg |-> values]
       ELSE /\ try_get_mut_key_value
            /\ IsZset(value) /\ value.v.data.size < MaxZsetSize
            /\ InFlight < MaxTasks
            /\ value' = WithStatus(value, "Updating")
            /\ LET new == <<[NoTask EXCEPT
                               !.name = "add_zset_value",
                               !.server = server, !.key = key.v,
                               !.text = values[1],
                               !.offset = SubmittedScore(values[2])]>>
               IN  /\ tasks' = tasks (+) Spawned(new)
                   /\ last' = [op |-> "handle_add_value", stale |-> FALSE,
                               ok |-> TRUE, changed |-> {},
                               issued |-> Names(new), max |-> 0, len |-> 0,
                               arg |-> values]

\* the forms the dialog submits: a member and a score text, or a form that
\* lost a field
Forms ==
    {<<m, s>> : m \in ZMembers, s \in ScoreTexts} \cup {<<m>> : m \in {"m1"}}

NextZsetForm ==
    \/ \E s \in {"s1"} : Select(s)
    \/ \E t \in BagToSet(tasks) : SelectServerDone(t, TRUE)
    \/ \E t \in BagToSet(tasks) : \E r \in ScanRepliesEmpty(t.keyword) :
            ScanKeysDone(t, r)
    \/ \E k \in {<<"a">>} : Calm /\ SelectKey(k)
    \/ \E t \in BagToSet(tasks) : \E r \in Heard(ZsetKeyReplies(t.key)) :
            SelectKeyDone(t, r)
    \/ \E f \in Forms : Calm /\ HandleAddValue(f)
    \/ \E t \in BagToSet(tasks), count \in {0, 1} :
            AddZsetValueDone(t, TRUE, count)

\* the user opens a sorted set and submits the add form
SpecZsetForm == Init /\ [][NextZsetForm]_vars

(***************************************************************************)
(* Hashes (hash.rs).                                                       *)
(***************************************************************************)
\* first_load_hash_value (hash.rs:107-128) for a store reporting size
\* fields, whose first HSCAN returns the batch and the cursor
first_load_hash_value(k, size, batch, cursor) ==
    [for |-> k, key_type |-> "Hash", size |-> 0, status |-> "Idle",
     data |-> [kind |-> "Hash", cursor |-> cursor, size |-> size,
               values |-> batch, done |-> (cursor = 0), keyword |-> None]]

\* RedisValue::hash_value is Some
IsHash(v) == v # None /\ v.v.data.kind = "Hash"

\* what select_key returns for a hash key
HashKeyReplies(k) ==
    {[ok |-> TRUE, type |-> "hash", len |-> 0,
      value |-> Some(first_load_hash_value(k, n, b, c))] :
        n \in 0..Cardinality(HFields), b \in HashBatches, c \in {0, 1}}

\* a test that applies every reply
HashRemoveAppliesAlways(count) == TRUE

\* HDEL removed the field (hash.rs:301)
HashRemoveApplies(count) == count # 0

\* Vec::retain(|(field, _)| field != remove_field)
RECURSIVE RetainOthers(_, _)
RetainOthers(values, field) ==
    IF values = <<>> THEN <<>>
    ELSE IF Head(values)[1] = field THEN RetainOthers(Tail(values), field)
    ELSE <<Head(values)>> \o RetainOthers(Tail(values), field)

\* ZedisServerState::remove_hash_value (hash.rs:268-323), the call
RemoveHashValue(field) ==
    /\ UNCHANGED <<error_messages, SSH_SESSION, last_operated_at, now,
                   kv_delegate>>
    /\ server # ""
    /\ UNCHANGED <<scanVars, key>>
    /\ try_get_mut_key_value
    /\ IsHash(value)
    /\ InFlight < MaxTasks
    /\ value' = WithStatus(value, "Loading")
    /\ LET new == <<[NoTask EXCEPT !.name = "remove_hash_value",
                                   !.server = server, !.key = key.v,
                                   !.text = field]>>
       IN  /\ tasks' = tasks (+) Spawned(new)
           /\ last' = [op |-> "remove_hash_value", stale |-> FALSE,
                       ok |-> TRUE, changed |-> {}, issued |-> Names(new),
                       max |-> 0, len |-> 0, arg |-> field]

\* the replies of HDEL: an error, or the number of fields removed, which a
\* store never reports above the cardinality it reported before
HashRemoveReplies ==
    {[ok |-> FALSE, count |-> 0]}
    \cup {[ok |-> TRUE, count |-> c] :
            c \in {n \in {0, 1} : IsHash(value) => n <= value.v.data.size}}

\* the callback of remove_hash_value (hash.rs:298-320)
RemoveHashValueDone(t, r) ==
    /\ UNCHANGED <<scanVars, key>>
    /\ t.name = "remove_hash_value"
    /\ error_messages' = SpawnLog(error_messages, t.name, r.ok)
    /\ UNCHANGED <<SSH_SESSION, last_operated_at, now, kv_delegate>>
    /\ LET v1 == IF r.ok /\ HashRemoveApplies(r.count) /\ IsHash(value)
                 THEN Some([value.v EXCEPT
                              !.data.values = RetainOthers(@, t.text),
                              !.data.size = @ - r.count])
                 ELSE value
       IN  value' = IF r.ok THEN WithStatus(v1, "Idle") ELSE v1
    /\ tasks' = tasks (-) SetToBag({t})
    /\ last' = [op |-> "remove_hash_value_cb", task |-> t.name,
                log |-> error_messages,
                stale |-> (t.server # server \/ key # Some(t.key)),
                ok |-> r.ok, changed |-> {}, issued |-> <<>>, max |-> 0,
                len |-> r.count, arg |-> t.text]

\* The request load_more_hash_value issues when called with value v
\* (hash.rs:331-362): none without key and value or when the value is not a
\* hash, else one carrying the cursor and the keyword of the hash.
LoadMoreHashSpawn(v) ==
    IF ~(key # None /\ key # Some(<<>>) /\ v # None) THEN <<>>
    ELSE IF ~IsHash(v) THEN <<>>
    ELSE <<[NoTask EXCEPT !.name = "load_more_hash_value",
                          !.server = server, !.key = key.v,
                          !.offset = v.v.data.cursor,
                          !.filter = v.v.data.keyword]>>

\* the value load_more_hash_value leaves when called with value v: its
\* status is Loading once key and value are present (hash.rs:332-338)
LoadMoreHashStatus(v) ==
    IF key # None /\ key # Some(<<>>) /\ v # None
    THEN WithStatus(v, "Loading") ELSE v

\* ZedisServerState::load_more_hash_value (hash.rs:331-399), the call, made
\* by the table while the hash is not done (kv_delegate.rs:309-317)
LoadMoreHashValue ==
    /\ UNCHANGED <<error_messages, SSH_SESSION, last_operated_at, now,
                   kv_delegate>>
    /\ server # ""
    /\ UNCHANGED <<scanVars, key>>
    /\ IsHash(value) /\ ~value.v.data.done
    /\ Len(value.v.data.values) < MaxHashBuf
    /\ InFlight < MaxTasks
    /\ value' = LoadMoreHashStatus(value)
    /\ LET new == LoadMoreHashSpawn(value)
       IN  /\ tasks' = tasks (+) Spawned(new)
           /\ last' = [op |-> "load_more_hash_value", stale |-> FALSE,
                       ok |-> TRUE, changed |-> {}, issued |-> Names(new),
                       max |-> 0, len |-> 0, arg |-> <<>>]

\* ZedisServerState::filter_hash_value (hash.rs:241-259)
FilterHashValue(kw) ==
    /\ UNCHANGED <<error_messages, SSH_SESSION, last_operated_at, now,
                   kv_delegate>>
    /\ server # ""
    /\ UNCHANGED <<scanVars, key>>
    /\ IsHash(value)
    /\ InFlight < MaxTasks
    /\ LET v1 == Some([value.v EXCEPT
                         !.data = [kind |-> "Hash", cursor |-> 0,
                                   size |-> value.v.data.size,
                                   values |-> <<>>, done |-> FALSE,
                                   keyword |-> Some(kw)]])
           new == LoadMoreHashSpawn(v1)
       IN  /\ value' = LoadMoreHashStatus(v1)
           /\ tasks' = tasks (+) Spawned(new)
           /\ last' = [op |-> "filter_hash_value", stale |-> FALSE,
                       ok |-> TRUE, changed |-> {}, issued |-> Names(new),
                       max |-> 0, len |-> 0, arg |-> kw]

\* the replies of HSCAN: an error, or a cursor and a batch
HashScanReplies ==
    {[ok |-> FALSE, cursor |-> 0, values |-> <<>>]}
    \cup {[ok |-> TRUE, cursor |-> c, values |-> b] :
            c \in {0, 1}, b \in HashBatches}

\* a continuation test that ignores the number of buffered entries
HashShouldLoadMoreNoLimit(done, n) == ~done

\* should_load_more (hash.rs:380-382)
HashShouldLoadMore(done, n) == ~done /\ n < HashAutoLoadMin

\* a merge that keeps the new batch in place of the buffer
HashValuesReplaced(values, new_values) == new_values

\* hash.values.extend(new_values) (hash.rs:376-379)
HashValuesExtended(values, new_values) == values \o new_values

\* the callback of load_more_hash_value (hash.rs:363-396)
LoadMoreHashValueDone(t, r) ==
    /\ UNCHANGED <<scanVars, key>>
    /\ t.name = "load_more_hash_value"
    /\ error_messages' = SpawnLog(error_messages, t.name, r.ok)
    /\ UNCHANGED <<SSH_SESSION, last_operated_at, now, kv_delegate>>
    /\ LET applies == r.ok /\ IsHash(value)
           v1 == IF applies
                 THEN Some([value.v EXCEPT
                              !.data.cursor = r.cursor,
                              !.data.done = (@ \/ r.cursor = 0),
                              !.data.values =
                                 HashValuesExtended(@, r.values)])
                 ELSE value
           more == applies /\ HashShouldLoadMore(v1.v.data.done,
                                                 Len(v1.v.data.values))
           v2 == WithStatus(v1, "Idle")
           new == IF more THEN LoadMoreHashSpawn(v2) ELSE <<>>
       IN  /\ value' = IF more THEN LoadMoreHashStatus(v2) ELSE v2
           /\ tasks' = (tasks (-) SetToBag({t})) (+) Spawned(new)
           /\ last' = [op |-> "load_more_hash_value_cb", task |-> t.name,
                       log |-> error_messages,
                       stale |-> (t.server # server \/ key # Some(t.key)),
                       ok |-> r.ok, changed |-> {}, issued |-> Names(new),
                       max |-> 0, len |-> r.cursor, arg |-> <<>>]

NextHashRemove ==
    \/ \E s \in {"s1"} : Select(s)
    \/ \E t \in BagToSet(tasks) : SelectServerDone(t, TRUE)
    \/ \E t \in BagToSet(tasks) : \E r \in ScanRepliesEmpty(t.keyword) :
            ScanKeysDone(t, r)
    \/ \E k \in {<<"a">>} : SelectKey(k)
    \/ \E t \in BagToSet(tasks) : \E r \in Heard(HashKeyReplies(t.key)) :
            SelectKeyDone(t, r)
    \/ \E f \in HFields : RemoveHashValue(f)
    \/ \E t \in BagToSet(tasks) : \E r \in Heard(HashRemoveReplies) :
            RemoveHashValueDone(t, r)

\* the user opens a hash and removes fields
SpecHashRemove == Init /\ [][NextHashRemove]_vars

NextHash ==
    \/ \E s \in {"s1"} : Select(s)
    \/ \E t \in BagToSet(tasks) : SelectServerDone(t, TRUE)
    \/ \E t \in BagToSet(tasks) : \E r \in ScanRepliesEmpty(t.keyword) :
            ScanKeysDone(t, r)
    \/ \E k \in {<<"a">>} : SelectKey(k)
    \/ \E t \in BagToSet(tasks) : \E r \in Heard(HashKeyReplies(t.key)) :
            SelectKeyDone(t, r)
    \/ LoadMoreHashValue
    \/ \E kw \in HashKeywords : FilterHashValue(kw)
    \/ \E t \in BagToSet(tasks) : \E r \in Heard(HashScanReplies) :
            LoadMoreHashValueDone(t, r)

\* the user opens a hash, filters it and loads more of it
SpecHash == Init /\ [][NextHash]_vars

\* the local cardinality of a hash at most
MaxHashSize == 3
\* the values the editor writes into a field
HValues == {"v", "w"}

\* a cardinality that counts every HSET as a new field
HashSizeAfterSetAlways(size, count) == size + 1

\* hash.size += count (hash.rs:201)
HashSizeAfterSet(size, count) == size + count

\* the loop over hash.values (hash.rs:204-209): the first entry of the field
\* takes the new value
RECURSIVE HashValuesAfterSet(_, _, _)
HashValuesAfterSet(values, field, new_value) ==
    IF values = <<>> THEN <<>>
    ELSE IF Head(values)[1] = field
    THEN <<(<<field, new_value>>)>> \o Tail(values)
    ELSE <<Head(values)>> \o HashValuesAfterSet(Tail(values), field, new_value)

\* ZedisServerState::add_or_update_hash_value (hash.rs:154-232), the call;
\* add_hash_value and update_hash_value (hash.rs:140-153) both are this.
\* The task carries the field in text and the new value in filter.
AddOrUpdateHashValue(field, new_value) ==
    /\ UNCHANGED <<error_messages, SSH_SESSION, last_operated_at, now,
                   kv_delegate>>
    /\ server # ""
    /\ UNCHANGED <<scanVars, key>>
    /\ try_get_mut_key_value
    /\ InFlight < MaxTasks
    /\ value' = WithStatus(value, "Updating")
    /\ LET new == <<[NoTask EXCEPT !.name = "add_or_update_hash_value",
                                   !.server = server, !.key = key.v,
                                   !.text = field,
                                   !.filter = Some(new_value)]>>
       IN  /\ tasks' = tasks (+) Spawned(new)
           /\ last' = [op |-> "add_or_update_hash_value", stale |-> FALSE,
                       ok |-> TRUE, changed |-> {}, issued |-> Names(new),
                       max |-> 0, len |-> 0, arg |-> field]

\* the replies of HSET (hash.rs:172-181): an error, 1 for a field it
\* created, 0 for a field that existed
HashSetReplies ==
    {[ok |-> FALSE, count |-> 0]}
    \cup {[ok |-> TRUE, count |-> c] :
            c \in {n \in {0, 1} :
                     IsHash(value) => value.v.data.size + n <= MaxHashSize}}

\* the callback of add_or_update_hash_value (hash.rs:184-229)
AddOrUpdateHashValueDone(t, r) ==
    /\ UNCHANGED <<scanVars, key>>
    /\ t.name = "add_or_update_hash_value"
    /\ error_messages' = SpawnLog(error_messages, t.name, r.ok)
    /\ UNCHANGED <<SSH_SESSION, last_operated_at, now, kv_delegate>>
    /\ LET v1 == WithStatus(value, "Idle")
       IN  value' = IF r.ok /\ IsHash(v1)
                    THEN Some([v1.v EXCEPT
                                 !.data.size = HashSizeAfterSet(@, r.count),
                                 !.data.values =
                                    HashValuesAfterSet(@, t.text, t.filter.v)])
                    ELSE v1
    /\ tasks' = tasks (-) SetToBag({t})
    /\ last' = [op |-> "add_or_update_hash_value_cb", task |-> t.name,
                log |-> error_messages,
                stale |-> (t.server # server \/ key # Some(t.key)),
                ok |-> r.ok, changed |-> {}, issued |-> <<>>, max |-> 0,
                len |-> r.count, arg |-> <<t.text, t.filter.v>>]

NextHashSet ==
    \/ \E s \in {"s1"} : Select(s)
    \/ \E t \in BagToSet(tasks) : SelectServerDone(t, TRUE)
    \/ \E t \in BagToSet(tasks) : \E r \in ScanRepliesEmpty(t.keyword) :
            ScanKeysDone(t, r)
    \/ \E k \in {<<"a">>} : SelectKey(k)
    \/ \E t \in BagToSet(tasks) : \E r \in Heard(HashKeyReplies(t.key)) :
            SelectKeyDone(t, r)
    \/ \E f \in HFields, v \in HValues : AddOrUpdateHashValue(f, v)
    \/ \E t \in BagToSet(tasks) : \E r \in Heard(HashSetReplies) :
            AddOrUpdateHashValueDone(t, r)

\* the user opens a hash and adds and updates fields
SpecHashSet == Init /\ [][NextHashSet]_vars

NextFilter ==
    \/ \E s \in {"s1"} : Select(s)
    \/ \E t \in BagToSet(tasks) : SelectServerDone(t, TRUE)
    \/ \E t \in BagToSet(tasks) : \E r \in ScanRepliesEmpty(t.keyword) :
            ScanKeysDone(t, r)
    \/ Calm /\ \E k \in {<<"a">>} : SelectKey(k)
    \/ \E t \in BagToSet(tasks) :
          \E r \in HashKeyReplies(t.key) \cup SetKeyRepliesWhole(t.key)
                    \cup ZsetKeyReplies(t.key) :
            SelectKeyDone(t, r)
    \/ Calm /\ \E kw \in HashKeywords : FilterHashValue(kw)
    \/ Calm /\ \E kw \in MemberKeywords : FilterSetValue(kw)
    \/ Calm /\ \E kw \in MemberKeywords, d \in SortOrders :
            FilterZsetValue(kw, d)
    \/ \E t \in BagToSet(tasks) : \E r \in HashScanReplies :
            r.ok /\ LoadMoreHashValueDone(t, r)
    \/ \E t \in BagToSet(tasks) : \E r \in SetScanReplies(t) :
            r.ok /\ LoadMoreSetValueDone(t, r)
    \/ \E t \in BagToSet(tasks) : \E r \in ZsetLoadReplies(t) :
            r.ok /\ LoadMoreZsetValueDone(t, r)

\* the user opens a hash, a set or a sorted set and filters it, against a
\* store that answers every command
SpecFilter == Init /\ [][NextFilter]_vars

(***************************************************************************)
(* The table delegate (kv_delegate.rs).  The table calls load_more when    *)
(* the user scrolls near the end, the editor calls set_fetcher when it has *)
(* a new value, and the remove button of a row opens a dialog whose        *)
(* closure keeps the processing cell the delegate had at the click.        *)
(***************************************************************************)
\* ZedisKvDelegate::set_fetcher (kv_delegate.rs:119-122) with a fetcher
\* whose is_done answers done: a new fetcher and a new cell holding false
SetFetcher(done) ==
    /\ UNCHANGED <<scanVars, key, value, error_messages, SSH_SESSION, tasks>>
    /\ UNCHANGED <<last_operated_at, now>>
    /\ kv_delegate.fetcher < MaxFetchers
    /\ LET n == kv_delegate.fetcher + 1
       IN  /\ kv_delegate' = [kv_delegate EXCEPT !.fetcher = n,
                                                 !.cell[n] = FALSE,
                                                 !.done[n] = done,
                                                 !.removed = FALSE]
           /\ last' = [op |-> "set_fetcher", fetcher |-> n]

\* ZedisKvDelegate::load_more (kv_delegate.rs:309-318)
DelegateLoadMore ==
    /\ UNCHANGED <<scanVars, key, value, error_messages, SSH_SESSION, tasks>>
    /\ UNCHANGED <<last_operated_at, now>>
    /\ LET n == kv_delegate.fetcher
           is_done == kv_delegate.done[n]
           processing == kv_delegate.cell[n]
           called == ~is_done /\ ~processing
       IN  /\ kv_delegate' =
                 IF is_done THEN kv_delegate
                 ELSE [kv_delegate EXCEPT
                         !.cell[n] = TRUE,
                         !.calls[n] = IF called THEN @ + 1 ELSE @]
           /\ last' = [op |-> "load_more", fetcher |-> n,
                       called |-> called, is_done |-> is_done,
                       removed |-> kv_delegate.removed]

\* the remove button of a row is clicked (kv_delegate.rs:249-260): it is
\* enabled while the cell of the delegate holds false, and the listener
\* hands the cell to the dialog it opens
RemoveClicked ==
    /\ UNCHANGED <<scanVars, key, value, error_messages, SSH_SESSION, tasks>>
    /\ UNCHANGED <<last_operated_at, now>>
    /\ kv_delegate.dialog = None
    /\ ~kv_delegate.cell[kv_delegate.fetcher]
    /\ kv_delegate' = [kv_delegate EXCEPT !.dialog =
                                        Some(kv_delegate.fetcher)]
    /\ last' = [op |-> "remove_clicked", fetcher |-> kv_delegate.fetcher]

\* the dialog is confirmed (kv_delegate.rs:272-277): the cell the dialog
\* holds is set and remove of its fetcher is called
RemoveConfirmed ==
    /\ UNCHANGED <<scanVars, key, value, error_messages, SSH_SESSION, tasks>>
    /\ UNCHANGED <<last_operated_at, now>>
    /\ kv_delegate.dialog # None
    /\ LET n == kv_delegate.dialog.v
       IN  /\ kv_delegate' = [kv_delegate EXCEPT !.cell[n] = TRUE,
                                                 !.dialog = None,
                                                 !.removed = TRUE]
           /\ last' = [op |-> "remove", fetcher |-> n]

\* the dialog is dismissed
RemoveDismissed ==
    /\ UNCHANGED <<scanVars, key, value, error_messages, SSH_SESSION, tasks>>
    /\ UNCHANGED <<last_operated_at, now>>
    /\ kv_delegate.dialog # None
    /\ kv_delegate' = [kv_delegate EXCEPT !.dialog = None]
    /\ last' = [op |-> "remove_dismissed"]

NextDelegate ==
    \/ \E done \in BOOLEAN : SetFetcher(done)
    \/ DelegateLoadMore
    \/ RemoveClicked
    \/ RemoveConfirmed
    \/ RemoveDismissed

\* a table whose editor receives new values while the user scrolls and
\* removes rows
SpecDelegate == Init /\ [][NextDelegate]_vars

(***************************************************************************)
(* The list editor's view of the buffer (list_editor.rs:36-178) and the     *)
(* substring test it filters with (string.rs:25-40).  A string is the       *)
(* sequence of its characters; U023A is the capital letter A with stroke,   *)
(* whose lower case U2C65 takes three bytes of UTF-8 where it takes two.    *)
(***************************************************************************)
MaxStrLen == 2
MaxNeedleLen == 2
MaxViewItems == 2
MaxViewKeywordLen == 1

Chars == {"a", "A", "U023A", "U2C65"}

\* the UTF-8 encoding of a character
Utf8(c) ==
    CASE c = "a" -> <<97>>
      [] c = "A" -> <<65>>
      [] c = "U023A" -> <<200, 186>>
      [] c = "U2C65" -> <<226, 177, 165>>

RECURSIVE as_bytes(_)
\* str::as_bytes
as_bytes(s) == IF s = <<>> THEN <<>> ELSE Utf8(Head(s)) \o as_bytes(Tail(s))

\* str::is_ascii
is_ascii(s) == \A i \in 1..Len(as_bytes(s)) : as_bytes(s)[i] < 128

\* u8::to_ascii_lowercase
to_ascii_lowercase(b) == IF b \in 65..90 THEN b + 32 ELSE b

\* <[u8]>::eq_ignore_ascii_case
eq_ignore_ascii_case(x, y) ==
    /\ Len(x) = Len(y)
    /\ \A i \in 1..Len(x) : to_ascii_lowercase(x[i]) = to_ascii_lowercase(y[i])

\* str::to_lowercase
to_lowercase(s) ==
    [i \in 1..Len(s) |->
        CASE s[i] = "A" -> "a" [] s[i] = "U023A" -> "U2C65" [] OTHER -> s[i]]

\* a call that panics, and a call that returns
Panics == [panic |-> TRUE]
Returns(v) == [panic |-> FALSE, v |-> v]

\* fast_contains_ignore_case (string.rs:25-40); str::len counts bytes, and
\* slice::windows panics when the window size is zero
fast_contains_ignore_case(haystack, needle_lower) ==
    IF Len(as_bytes(needle_lower)) > Len(as_bytes(haystack))
    THEN Returns(FALSE)
    ELSE IF is_ascii(haystack)
    THEN LET needle_bytes == as_bytes(needle_lower)
             bytes == as_bytes(haystack)
         IN  IF Len(needle_bytes) = 0 THEN Panics
             ELSE Returns(\E i \in 0..(Len(bytes) - Len(needle_bytes)) :
                            eq_ignore_ascii_case(
                                SubSeq(bytes, i + 1, i + Len(needle_bytes)),
                                needle_bytes))
    ELSE Returns(Contains(to_lowercase(haystack), needle_lower))

\* the indexes (from 0) of the items of the buffer the keyword matches
MatchingIndexes(values, kw) ==
    LET hit(i) == fast_contains_ignore_case(values[i], kw) = Returns(TRUE)
        F[n \in 0..Len(values)] ==
            IF n = 0 THEN <<>>
            ELSE IF hit(n) THEN Append(F[n - 1], n - 1) ELSE F[n - 1]
    IN  F[Len(values)]

\* ZedisListValues::recalc_visible_items (list_editor.rs:45-67) for the
\* buffer and the keyword of the list value
recalc_visible_items(values, kw_opt) ==
    LET kw == to_lowercase(IF kw_opt = None THEN <<>> ELSE kw_opt.v)
    IN  IF kw = <<>>
        THEN Returns([visible_items |-> values,
                      visible_item_indexes |-> None])
        ELSE IF \E i \in 1..Len(values) :
                    fast_contains_ignore_case(values[i], kw) = Panics
        THEN Panics
        ELSE LET indexes == MatchingIndexes(values, kw)
             IN  Returns([visible_items |->
                              [i \in 1..Len(indexes) |->
                                    values[indexes[i] + 1]],
                          visible_item_indexes |-> Some(indexes)])

\* every string of at most n characters
StringsUpTo(n) == UNION {[1..m -> Chars] : m \in 0..n}

\* the needles: the strings that are their own lower case
LowerNeedles == {s \in StringsUpTo(MaxNeedleLen) : to_lowercase(s) = s}

\* the items of the buffers
ViewItems == {<<"a">>, <<"A", "a">>, <<"U023A">>, <<"a", "U2C65">>}

\* the inputs: a haystack and a needle for the test, or a buffer and a
\* keyword for the view
InitListView ==
    /\ InitState
    /\ last \in
         {[op |-> "contains_input", haystack |-> h, needle |-> n] :
             h \in StringsUpTo(MaxStrLen), n \in LowerNeedles}
         \cup
         {[op |-> "view_input", values |-> vs, keyword |-> kw] :
             vs \in UNION {[1..m -> ViewItems] : m \in 0..MaxViewItems},
             kw \in {None} \cup
                    {Some(k) : k \in StringsUpTo(MaxViewKeywordLen)}}

\* fast_contains_ignore_case applied to the inputs
FastContainsIgnoreCase ==
    /\ last.op = "contains_input"
    /\ UNCHANGED <<scanVars, key, value, error_messages, SSH_SESSION, tasks>>
    /\ UNCHANGED <<last_operated_at, now, kv_delegate>>
    /\ last' = [op |-> "fast_contains_ignore_case",
                haystack |-> last.haystack, needle |-> last.needle,
                ret |-> fast_contains_ignore_case(last.haystack, last.needle)]

\* ZedisListValues::new (list_editor.rs:168-177): the view of a list value
NewListValues ==
    /\ last.op = "view_input"
    /\ UNCHANGED <<scanVars, key, value, error_messages, SSH_SESSION, tasks>>
    /\ UNCHANGED <<last_operated_at, now, kv_delegate>>
    /\ last' = [op |-> "new", values |-> last.values,
                keyword |-> last.keyword,
                this |-> recalc_visible_items(last.values, last.keyword)]

\* ZedisListValues::remove (list_editor.rs:105-114) for a row of the table
\* (rows_count, list_editor.rs:88-93); real_index is what it hands to
\* remove_list_value
ListValuesRemove(index) ==
    /\ last.op = "new" /\ ~last.this.panic
    /\ index < Len(last.this.v.visible_items)
    /\ UNCHANGED <<scanVars, key, value, error_messages, SSH_SESSION, tasks>>
    /\ UNCHANGED <<last_operated_at, now, kv_delegate>>
    /\ LET indexes == last.this.v.visible_item_indexes
           real_index ==
               IF indexes # None
               THEN IF index < Len(indexes.v) THEN indexes.v[index + 1]
                    ELSE index
               ELSE index
       IN  last' = [op |-> "remove", values |-> last.values,
                    keyword |-> last.keyword, this |-> last.this,
                    index |-> index, real_index |-> real_index]

NextListView ==
    \/ FastContainsIgnoreCase
    \/ NewListValues
    \/ \E index \in 0..MaxViewItems : ListValuesRemove(index)

\* the substring test for every haystack and needle, and the view of every
\* buffer under every keyword
SpecListView == InitListView /\ [][NextListView]_vars

(***************************************************************************)
(* Properties of key selection and of the list value.                      *)
(***************************************************************************)
\* C4: once no request is in flight, the stored value is the one loaded
\* for the selected key, or there is none.
C4_ValueBelongsToKey ==
    InFlight = 0 /\ key # None /\ value # None => value.v.for = key.v

\* the value is a list with size 0 and an empty buffer
C9EmptyList ==
    IsList(value) /\ value.v.data.size = 0 /\ value.v.data.values = <<>>

\* C9: the first load of an empty list stores size 0 and an empty buffer,
\* for which is_done is TRUE, and load_more_list_value called on it issues
\* no request.
C9_EmptyListIsDone ==
    /\ last.op = "select_key_cb" /\ last.ok /\ IsList(value) /\ last.len = 0
         => C9EmptyList /\ ListIsDone(value)
    /\ last.op = "load_more_list_value" /\ C9EmptyList
         => ListIsDone(value) /\ last.issued = <<>>

\* C9 witness: load_more_list_value was called on a loaded empty list
C9_Witness ==
    /\ last.op = "load_more_list_value"
    /\ key # None /\ C9EmptyList /\ value.v.for = key.v

\* C10: the tree key_tree returns determines the key set it was built
\* from (so that flattening it back can reproduce the key set): no other
\* key set gives the tree of the current keys.
C10_KeyTreeRoundTrip ==
    \A K \in SUBSET StoreKeys :
        key_tree(K) = key_tree(KeySet(keys)) => K = KeySet(keys)

(***************************************************************************)
(* Properties of the typed values.                                         *)
(***************************************************************************)
\* the buffer is ordered by score in the given sort order
ZsetSortedBy(values, sort_order) ==
    \A i, j \in 1..Len(values) :
        i < j => IF sort_order = "Asc" THEN values[i][2] <= values[j][2]
                 ELSE values[i][2] >= values[j][2]

\* how often the member occurs in the buffer
ZsetCount(values, member) ==
    Cardinality({i \in 1..Len(values) : values[i][1] = member})

\* the step is the callback of the add request t applied to a sorted set
\* that has no filter, is sorted in its sort order and lacks t's member
C5Case(t) ==
    /\ t.name = "add_zset_value"
    /\ last'.op = "add_zset_value_cb" /\ last'.ok
    /\ tasks' = tasks (-) SetToBag({t})
    /\ IsZset(value)
    /\ value.v.data.keyword = None
    /\ ZsetSortedBy(value.v.data.values, value.v.data.sort_order)
    /\ ZsetCount(value.v.data.values, t.text) = 0

\* C5: adding a member that is not in the buffer of a sorted set with no
\* filter, whose buffer is sorted by score in the active sort order,
\* leaves the buffer sorted in that order with the member at most once.
C5_ZsetAddKeepsOrder ==
    [][\A t \in BagToSet(tasks) :
          C5Case(t) =>
            /\ IsZset(value')
            /\ ZsetSortedBy(value'.v.data.values, value.v.data.sort_order)
            /\ ZsetCount(value'.v.data.values, t.text) <= 1]_vars

\* C5 witness: an add has just inserted a member into a descending buffer
\* that held two members with different scores
C5_Witness ==
    /\ last.op = "add_zset_value_cb" /\ last.ok
    /\ "inserted" \in last.changed
    /\ IsZset(value) /\ value.v.data.sort_order = "Desc"
    /\ Len(value.v.data.values) = 3
    /\ value.v.data.values[1][2] # value.v.data.values[3][2]
    /\ ZsetSortedBy(value.v.data.values, "Desc")

\* the step is the callback of an add_set_value request answered with 0
C6Case ==
    /\ last'.op = "add_set_value_cb" /\ last'.ok /\ last'.len = 0
    /\ IsSet(value)

\* C6: an add_set_value whose SADD replies 0 (the member exists) leaves
\* the cardinality and the buffer of the set as they were, however often
\* it is applied.
C6_SetReAddChangesNothing ==
    [][C6Case =>
          /\ IsSet(value')
          /\ value'.v.data.size = value.v.data.size
          /\ value'.v.data.values = value.v.data.values]_vars

\* C6 witness: a set loaded empty holds one member after a successful add,
\* and an add of that member has just been answered with 0
C6_Witness ==
    /\ last.op = "add_set_value_cb" /\ last.ok /\ last.len = 0
    /\ IsSet(value) /\ value.v.data.done
    /\ value.v.data.size = 1 /\ value.v.data.values = <<last.arg>>

\* the fields the buffer of a hash holds
HashFields(values) == {values[i][1] : i \in 1..Len(values)}

\* C7: a remove_hash_value whose HDEL replies 0 (the field does not exist
\* in the store) leaves the field buffer and the cardinality of the hash
\* as they were.
C7_HashRemoveAbsentChangesNothing ==
    [][last'.op = "remove_hash_value_cb" /\ last'.ok /\ last'.len = 0
       /\ IsHash(value)
       => /\ IsHash(value')
          /\ value'.v.data.values = value.v.data.values
          /\ value'.v.data.size = value.v.data.size]_vars

\* C7 witness: HDEL has just replied 0 for a field that the buffer holds
C7_Witness ==
    /\ last.op = "remove_hash_value_cb" /\ last.ok /\ last.len = 0
    /\ IsHash(value)
    /\ last.arg \in HashFields(value.v.data.values)
    /\ value.v.data.size > 0

\* the step is the callback of a successful HSCAN applied to the selected
\* hash while a keyword filter is active
C8Case ==
    /\ last'.op = "load_more_hash_value_cb" /\ last'.ok
    /\ try_get_mut_key_value /\ IsHash(value)
    /\ value.v.data.keyword # None

\* the callback issued the next HSCAN
C8Reissued == last'.issued = <<"load_more_hash_value">>

ScanCallbacks == {"scan_keys_cb", "scan_prefix_cb", "fill_key_types_cb"}

\* C1: scan_completed is TRUE exactly when the last scan reply applied for
\* the current server and keyword had cursor sum 0; while it is TRUE no
\* cursors are stored and no step issues a scan request.
C1_CompletedIffLastReplyZero ==
    /\ scan_completed <=> scan_resp = "zero"
    /\ scan_completed => cursors = None
    /\ scan_completed /\ last.op \in {"scan_keys_cb", "scan_next"}
         => "scan_keys" \notin Range(last.issued)

\* a successful reply for the current selection was just applied, and it
\* left a non-zero cursor sum and fewer keys than the request's threshold
C2More ==
    scan_resp = "nonzero" /\ Cardinality(KeySet(keys)) < last.max

\* after a successful reply for the current selection the callback issues
\* the next request exactly when C2More, and otherwise clears scaning
C2Yield ==
    last.op = "scan_keys_cb" /\ ~last.stale /\ last.ok =>
        /\ C2More <=> last.issued = <<"scan_keys">>
        /\ ~C2More => ~scaning /\ "scan_keys" \notin Range(last.issued)

\* the step put in flight a scan request for the new selection, carrying
\* the cursors c and the threshold (scan_times + 1) * 1000; n is 1 for a
\* user operation and 0 for a callback, whose own request has left
C2Issued(c, n) ==
    /\ BagCardinality(tasks') = BagCardinality(tasks) + n
    /\ \E t \in BagToSet(tasks') :
        /\ t = [NoTask EXCEPT !.name = "scan_keys", !.server = server',
                              !.keyword = keyword', !.cursors = c,
                              !.max = (scan_times' + 1)
                                      * DEFAULT_SCAN_RESULT_MAX]
        /\ CopiesIn(t, tasks') >= CopiesIn(t, tasks) + n

\* scan starts from no cursors with scan_times 0; scan_next adds exactly
\* one to scan_times and resumes from the stored cursors; a continuation
\* resumes from the cursors just stored
C2Step ==
    /\ last'.op = "scan" => scan_times' = 0 /\ C2Issued(None, 1)
    /\ last'.op = "scan_next" =>
            scan_times' = scan_times + 1 /\ C2Issued(cursors, 1)
    /\ last'.op = "scan_keys_cb" /\ last'.issued = <<"scan_keys">> =>
            scan_times' = scan_times /\ C2Issued(cursors', 0)

C3_StaleReplyDiscarded ==
    last.op \in ScanCallbacks /\ last.stale =>
        last.changed \cap {"keys", "cursors", "scan_completed",
                           "loaded_prefixes"} = {}

(***************************************************************************)
(* Properties of the key tree.                                             *)
(***************************************************************************)
RECURSIVE TreeOrdered(_)
\* at this level and below, every item with children comes before every
\* item without, and items of the same kind ascend strictly by id
TreeOrdered(items) ==
    /\ \A i, j \in DOMAIN items :
          i < j =>
            LET a == items[i]
                b == items[j]
            IN  /\ (a.children = <<>>) => (b.children = <<>>)
                /\ ((a.children = <<>>) <=> (b.children = <<>>))
                      => StrLess(a.id, b.id)
    /\ \A i \in DOMAIN items : TreeOrdered(items[i].children)

\* C11: key_tree returns the same tree whatever order the keys are
\* iterated in, and at every level the nodes with children come before the
\* nodes without, nodes of the same kind being ordered by full path.
C11_KeyTreeOrderIndependent ==
    last.op = "key_tree" =>
        /\ \A o \in KeyOrders :
              Range(o) = Range(last.arg) => key_tree_in(o) = last.tree
        /\ TreeOrdered(last.tree)

\* C11 witness: a tree over three keys whose top level holds a directory
\* placed before a leaf of smaller path
C11_Witness ==
    /\ last.op = "key_tree"
    /\ Len(last.arg) = 3
    /\ Len(last.tree) = 2
    /\ last.tree[1].children # <<>>
    /\ last.tree[2].children = <<>>
    /\ StrLess(last.tree[2].id, last.tree[1].id)

(***************************************************************************)
(* Properties of the SSH tunnel subsystem.                                 *)
(***************************************************************************)
\* C12: a request that finds a cached session for its user@address returns
\* that session without a handshake when the probe passes; when the probe
\* fails it makes exactly one handshake, and the session that results
\* replaces the cache entry of the key.
C12_SshSessionReuse ==
    last.op = "get_or_init_ssh_session" /\ last.cached # None =>
        IF last.alive
        THEN /\ last.handshakes = 0
             /\ last.ok /\ last.ret = last.cached
             /\ SSH_SESSION[last.id] = last.cached
        ELSE /\ last.handshakes = 1
             /\ last.ok => /\ last.ret # None /\ last.ret # last.cached
                           /\ SSH_SESSION[last.id] = last.ret

\* C12 witness: a request found a dead cached session and replaced it
C12_Witness ==
    /\ last.op = "get_or_init_ssh_session"
    /\ last.cached # None /\ ~last.alive /\ last.ok
    /\ SSH_SESSION[last.id] = last.ret

\* a method is configured or available and succeeds
C13Succeeds(cfg, env) ==
    \/ cfg.key # "" /\ env.key = "Success"
    \/ /\ env.agent.state = "Identities"
       /\ \E i \in DOMAIN env.agent.ids : env.agent.ids[i] = "Success"
    \/ cfg.password # "" /\ env.password = "Success"

\* C13: when the connection is made and the key, if any, loads,
\* new_ssh_session returns a session exactly when one of public key, agent
\* and password is available and succeeds, a method that fails being
\* followed by the next; with none available no session results.
C13_SshAuthFallback ==
    last.op = "new_ssh_session" /\ last.env.connect
                                /\ last.env.key # "LoadErr"
        => (last.ok <=> C13Succeeds(last.cfg, last.env))

(***************************************************************************)
(* Properties of the task dispatcher and of the error log.                 *)
(***************************************************************************)
\* the step before was the completion of a task
IsCallback == "task" \in DOMAIN last

\* the n most recent entries of a log, oldest first
MostRecent(log, n) ==
    IF Len(log) <= n THEN log ELSE SubSeq(log, Len(log) - n + 1, Len(log))

\* C14: the error log never holds more than its capacity; a step either
\* leaves it alone or makes it the most recent entries, up to the capacity
\* and in insertion order, of the old log followed by one new entry, so
\* that an insertion into a full log drops the oldest entry and no other.
\* Only the completion of a task inserts.
C14_ErrorLogBounded ==
    /\ [](Len(error_messages) <= ErrorLogMax)
    /\ [](IsCallback =>
            \/ error_messages = last.log
            \/ error_messages
                  = MostRecent(Append(last.log, [category |-> last.task, created_at |-> now]),
                               ErrorLogMax))
    /\ [][("task" \notin DOMAIN last') => error_messages' = error_messages]_vars

\* C14 witness: a failure was logged into a full log whose oldest entry
\* differed from the next
C14_Witness ==
    /\ IsCallback /\ ~last.ok
    /\ Len(last.log) = ErrorLogMax
    /\ last.log[1] # last.log[2]
    /\ error_messages = Append(Tail(last.log), [category |-> last.task, created_at |-> now])

\* a step takes the task t out of the bag of futures in flight
C15Completes(t) == CopiesIn(t, tasks') < CopiesIn(t, tasks)

\* C15: a task leaves the futures in flight only through one run of its
\* callback, on success and on failure alike, and takes one copy with it;
\* a failed task has added an entry tagged with its name to the error log
\* the callback found, and a successful one has added none.
C15_CallbackOnceAndErrorLogged ==
    /\ [][\A t \in BagToSet(tasks) :
            C15Completes(t) =>
                /\ CopiesIn(t, tasks') = CopiesIn(t, tasks) - 1
                /\ "task" \in DOMAIN last' /\ last'.task = t.name
                /\ last'.log = error_messages]_vars
    /\ [](IsCallback =>
            IF last.ok THEN error_messages = last.log
            ELSE /\ error_messages # <<>>
                 /\ error_messages[Len(error_messages)]
                        = [category |-> last.task, created_at |-> now]
                 /\ error_messages
                        = MostRecent(Append(last.log, [category |-> last.task, created_at |-> now]),
                                     ErrorLogMax))

\* C15 witness: a scan request failed, its callback ran and the log ends
\* with an entry of its name
C15_Witness ==
    /\ IsCallback /\ ~last.ok /\ last.task = "scan_keys"
    /\ last.op = "scan_keys_cb"
    /\ error_messages[Len(error_messages)] = [category |-> "scan_keys", created_at |-> now]

C17_RemovalMatchesStore ==
    [][last'.op = "remove_zset_value_cb" /\ last'.ok /\ IsZset(value)
       => /\ IsZset(value')
          /\ value'.v.data.size = value.v.data.size - last'.len
          /\ value.v.data.size - last'.len >= 0
          /\ last'.len = 0 => value'.v.data.values = value.v.data.values
          /\ last'.len = 1
               => last'.arg \notin ZsetMembers(value'.v.data.values)]_vars

(***************************************************************************)
(* Properties of the typed loaders.                                        *)
(***************************************************************************)
\* C18: when select_key delivers a list, the value records the length the
\* store reports and the initial buffer holds at most one page of entries,
\* whatever the length of the list.
C18_FirstPageAtMostPage ==
    last.op = "select_key_cb" /\ last.ok /\ IsList(value)
       => /\ value.v.data.size = last.len
          /\ Len(value.v.data.values) <= ListPage

\* the entries buffered for a hash, none when no hash is shown
HashBuffer(v) == IF IsHash(v) THEN v.v.data.values ELSE <<>>

\* sequence a is the beginning of sequence b
IsPrefix(a, b) == Len(a) <= Len(b) /\ SubSeq(b, 1, Len(a)) = a

C20_UnsupportedTypeAbortsOpen ==
    [][last'.op = "select_key_cb"
       /\ KeyTypeFrom(last'.type) \notin {"String", "List"}
       => /\ ~last'.ok
          /\ value' = None
          /\ error_messages' = add_error_message(error_messages, "select_key")
          /\ keys' = keys /\ key' = key /\ server' = server
          /\ UNCHANGED scanVars]_vars

\* C20 witness: a key of type stream was opened while keys are listed, and
\* the log holds the error
C20_Witness ==
    /\ last.op = "select_key_cb" /\ last.type = "stream" /\ ~last.stale
    /\ value = None /\ DOMAIN keys # {}
    /\ error_messages # <<>>
    /\ error_messages[Len(error_messages)].category = "select_key"

(***************************************************************************)
(* Properties of the error shown to the user.                              *)
(***************************************************************************)
\* C21: the error get_error_message returns changes only when a task
\* completes: a step that starts an operation, or the passing of time,
\* leaves the shown error as it was.
C21_ErrorShownUntilCompletion ==
    [][("task" \notin DOMAIN last') => get_error_message' = get_error_message]_vars

(***************************************************************************)
(* Properties of the reset of the scan state.                              *)
(***************************************************************************)
\* the requests a step puts in flight
Issued == BagToSet(tasks' (-) tasks)

\* C22: a step of scan, or of select with another server, leaves the key
\* set and loaded_prefixes empty, cursors None, scan_times 0 and
\* scan_completed false, and a scan request it issues carries no cursors
\* and the first batch size; scan leaves the server as it was; select with
\* the selected server changes nothing and issues nothing.
C22_ResetBeforeRequest ==
    [][/\ (last'.op = "scan" \/ (last'.op = "select" /\ server' # server))
             => /\ KeySet(keys') = {} /\ loaded_prefixes' = {}
                /\ cursors' = None /\ scan_times' = 0 /\ ~scan_completed'
                /\ \A t \in Issued :
                      t.name = "scan_keys"
                         => t.cursors = None /\ t.max = DEFAULT_SCAN_RESULT_MAX
       /\ last'.op = "scan" => server' = server
       /\ (last'.op = "select" /\ server' = server)
             => UNCHANGED <<scanVars, key, value, tasks>>]_vars

\* C22 witness: scan has just reset a state that held keys, a loaded prefix
\* and cursors
C22_Witness ==
    /\ last.op = "scan"
    /\ {"keys", "loaded_prefixes", "cursors"} \subseteq last.changed
    /\ KeySet(keys) = {} /\ loaded_prefixes = {} /\ cursors = None

(***************************************************************************)
(* Properties of scan_prefix.                                              *)
(***************************************************************************)
\* C23: every key of the store that matches a prefix in loaded_prefixes is
\* in the key set.
C23_LoadedPrefixIsDrained ==
    \A p \in loaded_prefixes : MatchPrefix(p) \subseteq KeySet(keys)

(***************************************************************************)
(* Properties of the SSH host key check.                                   *)
(***************************************************************************)
\* text occurs in content: content is some text, then text, then some text
Occurs(text, content) ==
    \E i \in 0..Len(content), j \in 0..Len(content) :
        /\ i + Len(text) + j = Len(content)
        /\ content = SubSeq(content, 1, i) \o text
                       \o SubSeq(content, Len(content) - j + 1, Len(content))

C25_DeadSessionDiscarded ==
    last.op = "get_or_init_ssh_session" /\ last.cached # None /\ ~last.alive
        => SSH_SESSION[last.id] # last.cached

(***************************************************************************)
(* Properties of the list loader.                                          *)
(***************************************************************************)
\* C26: for a list that no other client modifies, a successful
\* load_more_list_value that was asked for the end of the buffer of the list
\* shown, while the buffer is shorter than the list, makes the buffer
\* longer, and the buffer stays the beginning of the list.
C26_ListLoadMoreProgresses ==
    [][last'.op = "load_more_list_value_cb" /\ last'.ok /\ ~last'.stale
       /\ IsList(value) /\ ~ListIsDone(value)
       => /\ IsList(value')
          /\ Len(value'.v.data.values) > Len(value.v.data.values)
          /\ IsPrefix(value'.v.data.values, StoreList(value.v.data.size))]_vars

(***************************************************************************)
(* Properties of the value status.                                         *)
(***************************************************************************)
\* C27: when no task is in flight the status of the hash shown is Idle:
\* every operation that set it to Loading has set it back, whatever its
\* task returned.
C27_StatusReturnsToIdle ==
    tasks = EmptyBag /\ IsHash(value) => value.v.status = "Idle"

(***************************************************************************)
(* Properties of the scan requests in flight.                              *)
(***************************************************************************)
\* the scan_keys requests in flight
ScanRequests == {t \in BagToSet(tasks) : t.name = "scan_keys"}

\* C28: at most one scan_keys request is in flight.
C28_OneScanRequestInFlight ==
    /\ Cardinality(ScanRequests) <= 1
    /\ \A t \in ScanRequests : CopiesIn(t, tasks) = 1

\* C29: while scaning is false no scan_keys request for the selected
\* server and keyword is in flight, and when no task is in flight scaning
\* is false.
C29_ScaningCoversRequests ==
    /\ ~scaning => \A t \in ScanRequests :
                       t.server # server \/ t.keyword # keyword
    /\ tasks = EmptyBag => ~scaning

(***************************************************************************)
(* Properties of the generation token of the key set.                      *)
(***************************************************************************)
\* the step assigned a new key_tree_id
TreeIdAssigned == "new_tree_id" \in DOMAIN last /\ last.new_tree_id

\* C30: a step that adds a key to the key set or removes one, and every
\* reset by select or scan, assigns a new key_tree_id; the callback of a
\* scan request that received only keys of the key set assigns none.
C30_TreeIdFollowsKeySet ==
    [][/\ KeySet(keys') # KeySet(keys) => TreeIdAssigned'
       /\ last'.op = "scan" => TreeIdAssigned'
       /\ (last'.op = "select" /\ server' # server) => TreeIdAssigned'
       /\ (last'.op = "scan_keys_cb" /\ KeySet(keys') = KeySet(keys))
             => ~TreeIdAssigned']_vars

\* C30 witness: a scan request was answered with keys, all of them in the
\* key set already, and the token was kept
C30_Witness ==
    /\ last.op = "scan_keys_cb" /\ last.ok /\ ~last.new_tree_id
    /\ "keys" \notin last.changed /\ KeySet(keys) # {}
    /\ "cursors" \in last.changed

(***************************************************************************)
(* Properties of the type-resolution pass.                                 *)
(***************************************************************************)
\* the tasks the step answered
Answered == BagToSet(tasks (-) tasks')

\* key k is among the keys the task of fill_key_types queries
Queried(t, k) == \E j \in DOMAIN Take(t.keys, TypeQueryMax) : t.keys[j] = k

\* C31: a type-resolution pass carries exactly the keys of type Unknown
\* directly under its prefix and queries at most TypeQueryMax of them; its
\* callback changes the type of queried keys only, adds and removes no key,
\* and turns no resolved key back to Unknown.
C31_TypePassResolvesOnly ==
    [][/\ \A t \in Issued : t.name = "fill_key_types" =>
            \E p \in Prefixes \cup {<<>>} :
                t.keys = SortStrings(FillCandidates(keys', p))
       /\ last'.op = "fill_key_types_cb" =>
            \A t \in Answered :
                /\ KeySet(keys') = KeySet(keys)
                /\ \A k \in StoreKeys :
                    /\ keys'[k] # keys[k] => Queried(t, k)
                    /\ keys[k] \notin {"Absent", "Unknown"}
                          => keys'[k] # "Unknown"]_vars

(***************************************************************************)
(* Properties of concurrent tunnel requests.                               *)
(***************************************************************************)
\* the requests for the key id that returned a session
Returned(id) ==
    {t \in BagToSet(tasks) : /\ t.name = "open_single_ssh_tunnel_connection"
                             /\ t.id = id /\ t.at = "returned" /\ t.ok}

\* C32: while sessions stay alive, the requests for one user@address make
\* one successful handshake between them, and every request that returned
\* holds the session the cache has for the key.
C32_ConcurrentRequestsShareSession ==
    \A id \in SshIds :
        /\ \A t \in Returned(id) : SSH_SESSION[id] = t.session
        /\ \A t1, t2 \in Returned(id) :
              t1.handshakes = 1 /\ t2.handshakes = 1 =>
                  t1 = t2 /\ CopiesIn(t1, tasks) = 1

(***************************************************************************)
(* Properties of hash additions and updates.                               *)
(***************************************************************************)
\* C33: when HSET answers the request of add_hash_value or
\* update_hash_value for the hash shown, the cardinality grows by one when
\* the reply is 1 and stays when it is 0; a buffer entry of the field takes
\* the new value in place, and every other entry stays.
C33_HashSetCountsNewFields ==
    [][last'.op = "add_or_update_hash_value_cb" /\ last'.ok /\ ~last'.stale
       /\ IsHash(value)
       => /\ IsHash(value')
          /\ value'.v.data.size = value.v.data.size + last'.len
          /\ last'.len \in {0, 1}
          /\ Len(HashBuffer(value')) = Len(HashBuffer(value))
          /\ \A i \in DOMAIN HashBuffer(value) :
                HashBuffer(value')[i] =
                    IF HashBuffer(value)[i][1] = last'.arg[1]
                    THEN last'.arg
                    ELSE HashBuffer(value)[i]]_vars

\* C33 witness: HSET reported an existing field that is in the buffer with
\* another value; the value was replaced and the cardinality kept
C33_Witness ==
    /\ last.op = "add_or_update_hash_value_cb" /\ last.ok /\ ~last.stale
    /\ last.len = 0 /\ last.arg = <<"f2", "w">>
    /\ IsHash(value) /\ value.v.data.size = 2
    /\ HashBuffer(value) = <<(<<"f1", "v">>), (<<"f2", "w">>)>>

(***************************************************************************)
(* Properties of the filters of hashes, sets and sorted sets.              *)
(***************************************************************************)
\* the step is a call of filter_hash_value, filter_set_value or
\* filter_zset_value
IsFilterCall ==
    last.op \in {"filter_hash_value", "filter_set_value", "filter_zset_value"}

\* C34: a call of filter_hash_value, filter_set_value or filter_zset_value
\* leaves a value state of the same type with an empty buffer, cursor 0,
\* done false and the cardinality it had, and the request it issues starts
\* at cursor 0 with an empty buffer behind it.
C34_FilterReplacesState ==
    [][IsFilterCall' =>
         /\ value'.v.data.kind = value.v.data.kind
         /\ value'.v.data.values = <<>>
         /\ value'.v.data.cursor = 0
         /\ ~value'.v.data.done
         /\ value'.v.data.size = value.v.data.size
         /\ Issued # {}
         /\ \A t \in Issued : t.offset = 0 /\ t.cursor = 0]_vars

\* C34 witness: a filter was applied to a set that had members buffered and
\* a cardinality above 0
C34_Witness ==
    /\ last.op = "filter_set_value" /\ last.arg = <<"1">>
    /\ IsSet(value) /\ value.v.data.size = 2
    /\ value.v.data.values = <<>> /\ value.v.data.keyword = Some(<<"1">>)
    /\ \E t \in BagToSet(tasks) : t.name = "load_more_set_value"

\* C35: filter_zset_value leaves the sort order of the sorted set as it
\* was, and the request it issues reads in that order.
C35_FilterKeepsSortOrder ==
    [][last'.op = "filter_zset_value" =>
         /\ value'.v.data.sort_order = value.v.data.sort_order
         /\ \A t \in Issued :
               t.sort_order = value.v.data.sort_order]_vars

\* C36: while a set has a keyword, every member of its buffer contains the
\* keyword.
C36_FilteredSetBufferMatches ==
    IsSet(value) /\ value.v.data.keyword # None =>
        \A i \in DOMAIN value.v.data.values :
            MatchesPattern(value.v.data.values[i], value.v.data.keyword)

(***************************************************************************)
(* Properties of the table delegate.                                       *)
(***************************************************************************)
\* C37: load_more of the delegate calls load_more of no fetcher that is
\* done, calls it at most once for each fetcher, and does not call it
\* between a confirmed remove and the next set_fetcher.
C37_LoadMoreGuarded ==
    /\ \A n \in 1..MaxFetchers : kv_delegate.calls[n] <= 1
    /\ last.op = "load_more" /\ last.called =>
          ~last.is_done /\ ~last.removed


\* C38: submitting the sorted-set add form with a score that cannot be
\* parsed as a number is a validation error: no ZADD command is issued and
\* the sorted set's local state is unchanged.
C38_UnparseableScoreRejected ==
    [][last'.op = "handle_add_value" /\ Len(last'.arg) = 2
       /\ ~ParseF64(last'.arg[2]).some =>
            /\ Issued = {}
            /\ value' = value]_vars


\* a keyword is active in the view: the list value has a keyword, and it is
\* not the empty text
KeywordActive == last.keyword # None /\ last.keyword.v # <<>>

\* C39a: for every haystack and every lower-cased needle, the empty one
\* included, fast_contains_ignore_case returns what
\* haystack.to_lowercase().contains(needle) returns, and never panics.
C39a_SameAsLowercaseContains ==
    last.op = "fast_contains_ignore_case" =>
        last.ret = Returns(Contains(to_lowercase(last.haystack), last.needle))

\* C39b: with a keyword active, the visible rows are exactly the items of
\* the buffer for which the test returns true, in the order of the buffer.
C39b_VisibleRowsMatch ==
    last.op = "new" /\ KeywordActive =>
        /\ ~last.this.panic
        /\ last.this.v.visible_items =
              SelectSeq(last.values,
                        LAMBDA item :
                            fast_contains_ignore_case(
                                item, to_lowercase(last.keyword.v))
                            = Returns(TRUE))

\* C39c: with a keyword active, row i of the table is the item of the buffer
\* at index visible_item_indexes[i].
C39c_RowMapsToIndex ==
    last.op = "remove" /\ KeywordActive =>
        /\ last.this.v.visible_item_indexes # None
        /\ last.real_index =
              last.this.v.visible_item_indexes.v[last.index + 1]
        /\ last.values[last.real_index + 1] =
              last.this.v.visible_items[last.index + 1]

\* C39: for every haystack and every lower-cased needle, including the empty
\* needle, fast_contains_ignore_case(haystack, needle) returns the same
\* result as haystack.to_lowercase().contains(needle) and never panics; with
\* a list keyword active, the visible rows are exactly the buffered items for
\* which it returns true, in buffer order, and row i maps to the underlying
\* index visible_item_indexes[i].
C39_FilterMatchesLowercaseContains ==
    /\ C39a_SameAsLowercaseContains
    /\ C39b_VisibleRowsMatch
    /\ C39c_RowMapsToIndex

====
